---- MODULE Spec2Model ----
(***************************************************************************)
(* Model of tests/dice_easy.spec.js: the navigation helper (safeGoto), the *)
(* single-job processor (processJob, applyToJob, checkJobMatchWithLLM),    *)
(* the card batch processor (processJobBatch) and the search driver of a   *)
(* "Batch" test with its statistics fold.  Strings are sequences of        *)
(* one-character strings, so that toLowerCase, trim and includes are       *)
(* computed rather than assumed.                                           *)
(***************************************************************************)
EXTENDS Integers, Sequences, FiniteSets, TLC

(* ---------------------------------------------------------------------- *)
(* Program constants                                                       *)
(* ---------------------------------------------------------------------- *)
MAX_CONCURRENT_TABS == 2
TAB_DELAY == 3000

SEARCH_ITEMS ==
  << <<"P", "l", "a", "y", "w", "r", "i", "g", "h", "t">>,
     <<"Q", "A">>,
     <<"Q", "u", "a", "l", "i", "t", "y">>,
     <<"A", "u", "t", "o", "m", "a", "t", "i", "o", "n">>,
     <<"S", "D", "E", "T">>,
     <<"S", "o", "f", "t", "w", "a", "r", "e", " ", "D", "e", "v", "e", "l", "o", "p", "e", "r", " ", "E", "n", "g", "i", "n", "e", "e", "r", " ", "i", "n", " ", "T", "e", "s", "t">>,
     <<"P", "e", "r", "f", "o", "r", "m", "a", "n", "c", "e">>,
     <<"L", "o", "a", "d">>,
     <<"S", "t", "r", "e", "s", "s">>,
     <<"J", "M", "e", "t", "e", "r">> >>

UnknownJobTitle ==
  <<"U", "n", "k", "n", "o", "w", "n", " ", "J", "o", "b", " ", "T", "i", "t", "l", "e">>

\* Lengths of applyToJob's selector lists.
NumAlreadyAppliedSelectors == 7
NumApplySelectors == 9
NumNextSelectors == 5
NumSubmitSelectors == 8
NumConfirmationSelectors == 10

(* ---------------------------------------------------------------------- *)
(* Bounds of the model                                                     *)
(* ---------------------------------------------------------------------- *)
\* Page limit per search term (MAX_PAGES is 5 in the source; the model
\* explores a smaller limit).
MAX_PAGES == 2
\* Number of search terms handed to one "Batch" test.
NumTerms == 2
\* Most job cards one results page lists.
MaxCards == 3
\* Most job cards the site lists over one whole run.
MaxJobs == 3
\* Most clicks that open their tab only after their task gave up waiting.
MaxLate == 1
\* Longest raw text of a title element.
MaxTitleLen == 4
\* Most selectors of applyToJob's lists that find an element on one view.
MaxVisible == 2
\* Highest index, in each of applyToJob's selector lists, of a selector that
\* finds an element.
MaxSelector == 2
\* Largest retries argument of safeGoto that is explored.
MaxRetries == 2
\* Most keywords the resume gives to a direct call of checkJobMatchWithLLM.
MaxKeywords == 2
\* Most words of a reply of the scoring model, and of the message of an
\* exception.
MaxWords == 2
\* Most calls of logJob one concurrent caller makes.
MaxLogCalls == 5

(* ---------------------------------------------------------------------- *)
(* Strings                                                                 *)
(* ---------------------------------------------------------------------- *)
ToLowerChar(c) ==
  CASE c = "A" -> "a" [] c = "B" -> "b" [] c = "C" -> "c" [] c = "D" -> "d"
    [] c = "E" -> "e" [] c = "F" -> "f" [] c = "G" -> "g" [] c = "H" -> "h"
    [] c = "I" -> "i" [] c = "J" -> "j" [] c = "K" -> "k" [] c = "L" -> "l"
    [] c = "M" -> "m" [] c = "N" -> "n" [] c = "O" -> "o" [] c = "P" -> "p"
    [] c = "Q" -> "q" [] c = "R" -> "r" [] c = "S" -> "s" [] c = "T" -> "t"
    [] c = "U" -> "u" [] c = "V" -> "v" [] c = "W" -> "w" [] c = "X" -> "x"
    [] c = "Y" -> "y" [] c = "Z" -> "z"
    [] OTHER -> c

toLowerCase(s) == [i \in 1..Len(s) |-> ToLowerChar(s[i])]

\* String.prototype.includes: needle occurs in hay at some offset.
includes(hay, needle) ==
  \E off \in 0..(Len(hay) - Len(needle)) :
    \A i \in 1..Len(needle) : hay[off + i] = needle[i]

IsSpace(c) == c = " "

RECURSIVE trimStart(_)
trimStart(s) ==
  IF s # <<>> /\ IsSpace(Head(s)) THEN trimStart(Tail(s)) ELSE s

RECURSIVE trimEnd(_)
trimEnd(s) ==
  IF s # <<>> /\ IsSpace(s[Len(s)]) THEN trimEnd(SubSeq(s, 1, Len(s) - 1)) ELSE s

trim(s) == trimEnd(trimStart(s))

\* All sequences over alphabet of length at most n.
RECURSIVE SeqsUpTo(_, _)
SeqsUpTo(alphabet, n) ==
  IF n = 0 THEN {<<>>}
  ELSE LET shorter == SeqsUpTo(alphabet, n - 1)
       IN  shorter \cup {Append(s, c) : s \in {t \in shorter : Len(t) = n - 1}, c \in alphabet}

(* ---------------------------------------------------------------------- *)
(* matchesSearchCriteria                                                   *)
(* ---------------------------------------------------------------------- *)
matchesSearchCriteria_noLower(jobTitle) ==
  IF jobTitle = <<>> THEN [matches |-> FALSE, matchingTerms |-> {}]
  ELSE LET matchingTerms ==
             {n \in 1..Len(SEARCH_ITEMS) : includes(jobTitle, SEARCH_ITEMS[n])}
       IN  [matches |-> matchingTerms # {}, matchingTerms |-> matchingTerms]

matchesSearchCriteria(jobTitle) ==
  IF jobTitle = <<>> THEN [matches |-> FALSE, matchingTerms |-> {}]
  ELSE LET titleLower == toLowerCase(jobTitle)
           matchingTerms ==
             {n \in 1..Len(SEARCH_ITEMS) :
                includes(titleLower, toLowerCase(SEARCH_ITEMS[n]))}
       IN  [matches |-> matchingTerms # {}, matchingTerms |-> matchingTerms]

(* ---------------------------------------------------------------------- *)
(* extractJobTitleFromDetailPage                                           *)
(* A title element is [tc |-> textContent, it |-> innerText]; els is the   *)
(* sequence of elements the selectors find, in selector order, and h1s the *)
(* elements of the final page.$$("h1") pass.                               *)
(* ---------------------------------------------------------------------- *)
TitleOfElement(el) == IF trim(el.tc) = <<>> THEN el.it ELSE el.tc

TitleQualifies(title) == title # <<>> /\ trim(title) # <<>> /\ Len(title) > 3

RECURSIVE FirstQualifying(_)
FirstQualifying(els) ==
  IF els = <<>> THEN <<>>
  ELSE LET title == TitleOfElement(Head(els))
       IN  IF TitleQualifies(title) THEN <<trim(title)>>
           ELSE FirstQualifying(Tail(els))

extractJobTitleFromDetailPage(els, h1s) ==
  LET bySelector == FirstQualifying(els)
      byH1 == FirstQualifying(h1s)
  IN  IF bySelector # <<>> THEN bySelector[1]
      ELSE IF byH1 # <<>> THEN byH1[1]
      ELSE UnknownJobTitle

(* ---------------------------------------------------------------------- *)
(* checkJobMatchWithLLM                                                    *)
(* api is the behaviour of the completion call: [kind |-> "throws"],       *)
(* [kind |-> "null"] (no content) or [kind |-> "reply", content |-> s].    *)
(* ---------------------------------------------------------------------- *)
StrMatch == <<"m", "a", "t", "c", "h">>
StrPartialMatch ==
  <<"p", "a", "r", "t", "i", "a", "l", "_", "m", "a", "t", "c", "h">>

ReplyMATCH == <<"M", "A", "T", "C", "H">>
ReplyPARTIAL == <<"P", "A", "R", "T", "I", "A", "L", "_", "M", "A", "T", "C", "H">>
ReplyNO == <<"N", "O", "_", "M", "A", "T", "C", "H">>
ReplyOther == <<"U", "n", "s", "u", "r", "e">>

ApiBehaviours ==
  {[kind |-> "throws", content |-> <<>>], [kind |-> "null", content |-> <<>>]}
    \cup {[kind |-> "reply", content |-> c] :
            c \in {ReplyMATCH, ReplyPARTIAL, ReplyNO, ReplyOther}}

\* Line 237: the guard that lets the call reach the completion request.
CallsApi(groqClient, numKeywords, jobDescription) ==
  ~(~groqClient \/ numKeywords = 0 \/ ~jobDescription)

\* Variant: without the try/catch of lines 244-269 the exception of the
\* completion request leaves the function.
checkJobMatchWithLLM_noCatch(groqClient, numKeywords, jobDescription, api) ==
  IF ~groqClient \/ numKeywords = 0 \/ ~jobDescription THEN "SKIPPED_LLM"
  ELSE IF api.kind = "throws" THEN "raised"
  ELSE IF api.kind = "reply" /\ api.content # <<>>
            /\ includes(toLowerCase(api.content), StrMatch) THEN "MATCH"
  ELSE IF api.kind = "reply" /\ api.content # <<>>
            /\ includes(toLowerCase(api.content), StrPartialMatch) THEN "PARTIAL_MATCH"
  ELSE "NO_MATCH"

\* Variant: without the guard of line 237 the reply decides also when the
\* scorer is not configured.
checkJobMatchWithLLM_noGuard(groqClient, numKeywords, jobDescription, api) ==
  IF api.kind = "throws" THEN "ERROR"
  ELSE IF api.kind = "reply" /\ api.content # <<>>
            /\ includes(toLowerCase(api.content), StrMatch) THEN "MATCH"
  ELSE IF api.kind = "reply" /\ api.content # <<>>
            /\ includes(toLowerCase(api.content), StrPartialMatch) THEN "PARTIAL_MATCH"
  ELSE "NO_MATCH"

checkJobMatchWithLLM(groqClient, numKeywords, jobDescription, api) ==
  IF ~groqClient \/ numKeywords = 0 \/ ~jobDescription THEN "SKIPPED_LLM"
  ELSE IF api.kind = "throws" THEN "ERROR"
  ELSE IF api.kind = "reply" /\ api.content # <<>>
            /\ includes(toLowerCase(api.content), StrMatch) THEN "MATCH"
  ELSE IF api.kind = "reply" /\ api.content # <<>>
            /\ includes(toLowerCase(api.content), StrPartialMatch) THEN "PARTIAL_MATCH"
  ELSE "NO_MATCH"

(* ---------------------------------------------------------------------- *)
(* applyToJob                                                              *)
(* A view is what the detail page answers during one call:                 *)
(*   already, confirm : the selectors of the list that are visible;        *)
(*   applyVis, nextVis, submitVis : the visible selectors of the list, and *)
(*   applyBad, nextBad, submitBad : those of them whose click() throws;    *)
(*   closeAt : the stage of the call from which on the page is closed      *)
(*   (every await on a closed page throws);                                *)
(*   urlOk : the URL of the page holds one of the confirming words.        *)
(* ---------------------------------------------------------------------- *)
Stages ==
  <<"entry", "settle", "already", "apply", "applied", "next", "submit", "confirm", "never">>

StageNo(st) == CHOOSE i \in 1..Len(Stages) : Stages[i] = st

\* The page is still open when the call reaches stage st.
OpenAt(view, st) == StageNo(view.closeAt) > StageNo(st)

Min(S) == CHOOSE x \in S : \A y \in S : x <= y

\* Variant: the loop does not stop at the first click.
FirstClicked_all(vis, bad) ==
  IF vis \ bad = {} THEN <<>>
  ELSE LET RECURSIVE asc(_)
           asc(S) == IF S = {} THEN <<>> ELSE <<Min(S)>> \o asc(S \ {Min(S)})
       IN  asc(vis \ bad)

\* The selector whose element is clicked by one of the three click loops:
\* the first visible one whose click() does not throw (a throwing click is
\* swallowed by the loop's catch and the loop goes on), <<>> if none.
FirstClicked(vis, bad) ==
  IF vis \ bad = {} THEN <<>> ELSE <<Min(vis \ bad)>>

ApplyRet(success, alreadyApplied, reason) ==
  [success |-> success, alreadyApplied |-> alreadyApplied, reason |-> reason]

Tag(kind, idxs) == [i \in 1..Len(idxs) |-> <<kind, idxs[i]>>]

\* Lines 1156-1191: what is returned once the click loops are over, and by
\* which of the three returns: a confirmation selector that is found, a
\* confirming URL, or neither.
Confirmation_required(view) ==
  IF OpenAt(view, "confirm") /\ view.confirm # {}
  THEN [ret |-> ApplyRet(TRUE, FALSE, ""), via |-> "selector"]
  ELSE IF view.urlOk
  THEN [ret |-> ApplyRet(TRUE, FALSE, ""), via |-> "url"]
  ELSE [ret |-> ApplyRet(FALSE, FALSE, "Not confirmed"), via |-> "unverified"]

Confirmation(view) ==
  IF OpenAt(view, "confirm") /\ view.confirm # {}
  THEN [ret |-> ApplyRet(TRUE, FALSE, ""), via |-> "selector"]
  ELSE IF view.urlOk
  THEN [ret |-> ApplyRet(TRUE, FALSE, ""), via |-> "url"]
  ELSE [ret |-> ApplyRet(TRUE, FALSE, ""), via |-> "unverified"]

applyToJob_ignoreAlready(view) ==
  LET applyC == IF OpenAt(view, "apply")
                THEN FirstClicked(view.applyVis, view.applyBad) ELSE <<>>
  IN  IF applyC = <<>>
      THEN [ret |-> ApplyRet(FALSE, FALSE, "No Apply button found"), clicks |-> <<>>,
            via |-> "none"]
      ELSE [ret |-> ApplyRet(TRUE, FALSE, ""), clicks |-> Tag("apply", applyC),
            via |-> "unverified"]

applyToJob(view) ==
  IF ~OpenAt(view, "entry")
  THEN [ret |-> ApplyRet(FALSE, FALSE, "Page is closed"), clicks |-> <<>>, via |-> "none"]
  ELSE IF ~OpenAt(view, "settle")
  THEN [ret |-> ApplyRet(FALSE, FALSE, "err"), clicks |-> <<>>, via |-> "none"]
  ELSE IF OpenAt(view, "already") /\ view.already # {}
  THEN [ret |-> ApplyRet(TRUE, TRUE, ""), clicks |-> <<>>, via |-> "none"]
  ELSE
    LET applyC == IF OpenAt(view, "apply")
                  THEN FirstClicked(view.applyVis, view.applyBad) ELSE <<>>
        nextC == IF OpenAt(view, "next")
                 THEN FirstClicked(view.nextVis, view.nextBad) ELSE <<>>
        submitC == IF OpenAt(view, "submit")
                   THEN FirstClicked(view.submitVis, view.submitBad) ELSE <<>>
    IN  IF applyC = <<>>
        THEN [ret |-> ApplyRet(FALSE, FALSE, "No Apply button found"), clicks |-> <<>>,
              via |-> "none"]
        ELSE [ret |-> Confirmation(view).ret,
              clicks |-> Tag("apply", applyC) \o Tag("next", nextC)
                           \o Tag("submit", submitC),
              via |-> Confirmation(view).via]

\* The views of the bounded check: at most maxVisible selectors, among the
\* first MaxSelector of each list (only their order in the list matters), over all
\* lists together, find an element.
Explored(num) == 1..(IF num < MaxSelector THEN num ELSE MaxSelector)

Positions ==
  ({"already"} \X Explored(NumAlreadyAppliedSelectors))
    \cup ({"apply"} \X Explored(NumApplySelectors))
    \cup ({"next"} \X Explored(NumNextSelectors))
    \cup ({"submit"} \X Explored(NumSubmitSelectors))
    \cup ({"confirm"} \X Explored(NumConfirmationSelectors))

RECURSIVE SetsUpTo(_, _)
SetsUpTo(S, n) ==
  IF n = 0 THEN {{}}
  ELSE LET smaller == SetsUpTo(S, n - 1)
       IN  smaller \cup {T \cup {x} : T \in smaller, x \in S}

Of(S, kind) == {p[2] : p \in {q \in S : q[1] = kind}}

MkView(S, B, closeAt) ==
  [already |-> Of(S, "already"), confirm |-> Of(S, "confirm"),
   applyVis |-> Of(S, "apply"), applyBad |-> Of(B, "apply"),
   nextVis |-> Of(S, "next"), nextBad |-> Of(B, "next"),
   submitVis |-> Of(S, "submit"), submitBad |-> Of(B, "submit"),
   closeAt |-> closeAt, urlOk |-> FALSE]

Clickable(S) == {p \in S : p[1] \in {"apply", "next", "submit"}}

ApplyViews(maxVisible) ==
  UNION {{[MkView(S, B, c) EXCEPT !.urlOk = u] :
            B \in SUBSET Clickable(S),
            c \in {Stages[i] : i \in 1..Len(Stages)},
            u \in BOOLEAN} :
           S \in SetsUpTo(Positions, maxVisible)}

(* ---------------------------------------------------------------------- *)
(* State                                                                   *)
(* ---------------------------------------------------------------------- *)
VARIABLES
  ctxPages,   \* the open views of the browser context: MainPage and detail tabs
  g,          \* the running safeGoto call
  d,          \* the search driver of the test: position and loop indices
  stats,      \* the run statistics
  b,          \* the running processJobBatch call
  results,    \* its results array
  tasks,      \* the tasks of the group in flight, by index in the group
  logger,     \* the JobApplicationLogger
  env,        \* the site: cards left to list, clicks in flight, tabs opened
  a           \* a direct call of a helper (applyToJob, checkJobMatchWithLLM,
              \* extractJobTitleFromDetailPage, categorizeStatus): its input
              \* and what it returned

vars == <<ctxPages, g, d, stats, b, results, tasks, logger, env, a>>

\* Views are numbered: the search-results page, then the tabs in the order
\* they open.
MainPage == 0
PageIsClosed == MainPage \notin ctxPages

(* ---------------------------------------------------------------------- *)
(* safeGoto                                                                *)
(* g.pc is the await the call is suspended at; g.loads counts the calls of *)
(* page.goto, g.fails the load attempts that failed and g.waits the        *)
(* backoff waits of this call.                                             *)
(* ---------------------------------------------------------------------- *)
GotoIdle ==
  [pc |-> "idle", attempt |-> 0, retries |-> 0, loads |-> 0, fails |-> 0,
   waits |-> 0, ret |-> "none"]

GotoReturn(gg, ret) == [gg EXCEPT !.pc = "done", !.ret = ret]

\* The head of the for loop, reached with the given attempt number, up to
\* the first await: the loop test, the isClosed test, the call of page.goto.
GotoIter_offByOne(gg, attempt, closed) ==
  IF attempt > gg.retries + 1 THEN GotoReturn([gg EXCEPT !.attempt = attempt], "false")
  ELSE IF closed THEN GotoReturn([gg EXCEPT !.attempt = attempt], "false")
  ELSE [gg EXCEPT !.pc = "goto", !.attempt = attempt, !.loads = @ + 1]

GotoIter(gg, attempt, closed) ==
  IF attempt > gg.retries THEN GotoReturn([gg EXCEPT !.attempt = attempt], "false")
  ELSE IF closed THEN GotoReturn([gg EXCEPT !.attempt = attempt], "false")
  ELSE [gg EXCEPT !.pc = "goto", !.attempt = attempt, !.loads = @ + 1]

\* The catch block up to its await.
GotoCatch(gg, closed) ==
  LET failed == [gg EXCEPT !.fails = @ + 1]
  IN  IF gg.attempt < gg.retries /\ ~closed
      THEN [failed EXCEPT !.pc = "backoff", !.waits = @ + 1]
      ELSE GotoIter(failed, gg.attempt + 1, closed)

safeGoto(retries, closed) ==
  GotoIter([GotoIdle EXCEPT !.retries = retries], 0, closed)

\* The outcomes a run with faults adds to the fault-free ones.
Faulty(faults, S) == IF faults THEN S ELSE {}

\* What an await on the page can do: on a closed page it throws.
PageOutcomes(closed, open) == IF closed THEN {"throw"} ELSE open

\* await page.goto(url, ...)
GotoAwait(faults) ==
  /\ g.pc = "goto"
  /\ \E out \in PageOutcomes(PageIsClosed, {"ok"} \cup Faulty(faults, {"throw"})) :
       g' = IF out = "ok" THEN [g EXCEPT !.pc = "settle"]
            ELSE GotoCatch(g, PageIsClosed)
  /\ UNCHANGED <<ctxPages, d, stats, b, results, tasks, logger, env, a>>

\* await page.waitForTimeout(2000)
GotoSettle ==
  /\ g.pc = "settle"
  /\ g' = IF PageIsClosed THEN GotoCatch(g, PageIsClosed)
          ELSE [g EXCEPT !.pc = "title"]
  /\ UNCHANGED <<ctxPages, d, stats, b, results, tasks, logger, env, a>>

\* await page.title() and the test of the title
GotoTitle(faults) ==
  /\ g.pc = "title"
  /\ \E out \in PageOutcomes(PageIsClosed,
                             {"ok"} \cup Faulty(faults, {"empty", "throw"})) :
       g' = CASE out = "ok" -> GotoReturn(g, "true")
              [] out = "empty" ->
                   GotoIter([g EXCEPT !.fails = @ + 1], g.attempt + 1, PageIsClosed)
              [] OTHER -> GotoCatch(g, PageIsClosed)
  /\ UNCHANGED <<ctxPages, d, stats, b, results, tasks, logger, env, a>>

\* await page.waitForTimeout(3000) inside the catch block: nothing catches
\* what it throws when the page is closed while it waits.
GotoBackoff ==
  /\ g.pc = "backoff"
  /\ g' = IF PageIsClosed THEN GotoReturn(g, "raised")
          ELSE GotoIter(g, g.attempt + 1, PageIsClosed)
  /\ UNCHANGED <<ctxPages, d, stats, b, results, tasks, logger, env, a>>

(* ---------------------------------------------------------------------- *)
(* JobApplicationLogger                                                    *)
(* rows holds the serial number written to each row, in order.             *)
(* ---------------------------------------------------------------------- *)
LoggerInit == [serialNumber |-> 1, rows |-> <<>>]

\* Variant: the record is dropped, as when the worksheet is not initialised.
logJob_unready(lg) == lg

\* Variant: the row is written but the counter is left alone, as when the
\* increment waits for the save of the workbook.
logJob_noIncrement(lg) == [lg EXCEPT !.rows = Append(@, lg.serialNumber)]

\* Lines 527-586: the part of logJob that runs without suspension, from the
\* read of this.serialNumber (line 535) to its increment (line 578).
logJob(lg) ==
  [lg EXCEPT !.rows = Append(@, lg.serialNumber), !.serialNumber = @ + 1]

\* Line 587: the workbook is saved whenever the counter is a multiple of 5;
\* the call is suspended until the file is written.
SaveDue(lg) == lg.serialNumber % 5 = 0

\* Lines 617-624.
getLogSummary(lg) == [totalEntries |-> lg.serialNumber - 1]

\* Lines 595-607: the category of a status, by the first test its lower-case
\* text passes.
categorizeStatus(status) ==
  LET statusLower == toLowerCase(status)
      has(text) == includes(statusLower, text)
  IN  IF \/ has(<<"s", "u", "c", "c", "e", "s", "s">>)
         \/ has(<<"a", "p", "p", "l", "i", "e", "d">>)
      THEN "success"
      ELSE IF has(<<"a", "l", "r", "e", "a", "d", "y", " ", "a", "p", "p", "l",
                "i", "e", "d">>)
      THEN "already_applied"
      ELSE IF has(<<"s", "k", "i", "p", "p", "e", "d">>) THEN "skipped"
      ELSE IF \/ has(<<"f", "a", "i", "l", "e", "d">>)
              \/ has(<<"e", "r", "r", "o", "r">>)
      THEN "failed"
      ELSE IF has(<<"l", "l", "m", " ", "m", "a", "t", "c", "h">>)
      THEN "llm_match"
      ELSE IF has(<<"l", "l", "m", " ", "p", "a", "r", "t", "i", "a", "l", "_",
                "m", "a", "t", "c", "h">>)
      THEN "llm_partial_match"
      ELSE IF has(<<"l", "l", "m", " ", "n", "o", "_", "m", "a", "t", "c", "h">>)
      THEN "llm_no_match"
      ELSE "unknown"

(* ---------------------------------------------------------------------- *)
(* processJob                                                              *)
(* ---------------------------------------------------------------------- *)
Res(success, skipped, alreadyApplied, reason, llm) ==
  [success |-> success, skipped |-> skipped, alreadyApplied |-> alreadyApplied,
   reason |-> reason, llm |-> llm]

NoRes == Res(FALSE, FALSE, FALSE, "none", "null")

NoApply == [ret |-> ApplyRet(FALSE, FALSE, "none"), clicks |-> <<>>, via |-> "none"]

\* What one call did, kept beside its result.
\* decided: the call got as far as the decision of lines 847-961.
Trace(title, desc, llmCalled, verdict, applyCalled, apply) ==
  [title |-> title, desc |-> desc, llmCalled |-> llmCalled, verdict |-> verdict,
   applyCalled |-> applyCalled, apply |-> apply, decided |-> TRUE]

NoTrace ==
  [Trace(<<>>, FALSE, FALSE, "null", FALSE, NoApply) EXCEPT !.decided = FALSE]

\* Lines 847-961: from the extracted title and description to the outcome.
\* in = [els, h1s, desc, api, view]; cfg = [groq, keywords].
\* Lines 869-874: the outcome when the scorer rejects the job.
SkippedByLLM_notSkipped(verdict) == Res(FALSE, FALSE, FALSE, "LLM", verdict)

SkippedByLLM(verdict) == Res(FALSE, TRUE, FALSE, "LLM", verdict)

\* Line 882: neither a description nor a title match.
NoSignal_never(jobDescription, matches) == FALSE

NoSignal(jobDescription, matches) == ~jobDescription /\ ~matches

\* Lines 910-944: the outcome and the logged status after applyToJob returned.
Applied_noVerdict(ret, verdict) ==
  Res(ret.success, FALSE, ret.success /\ ret.alreadyApplied,
      IF ret.success THEN "none" ELSE ret.reason, "null")

Applied(ret, verdict) ==
  Res(ret.success, FALSE, ret.success /\ ret.alreadyApplied,
      IF ret.success THEN "none" ELSE ret.reason, verdict)

AppliedStatus(ret) ==
  IF ret.success
  THEN IF ret.alreadyApplied THEN "Already Applied" ELSE "Success - Applied"
  ELSE "Failed - application"

processJobDecide(in, cfg) ==
  LET jobTitle == extractJobTitleFromDetailPage(in.els, in.h1s)
      jobDescription == in.desc
      isInitialMatch == matchesSearchCriteria(jobTitle)
      llmCalled == ~isInitialMatch.matches /\ jobDescription
      verdict == IF llmCalled
                 THEN checkJobMatchWithLLM(cfg.groq, cfg.keywords, jobDescription, in.api)
                 ELSE "null"
      ap == applyToJob(in.view)
  IN  IF llmCalled /\ verdict \in {"NO_MATCH", "ERROR"}
      THEN [res |-> SkippedByLLM(verdict),
            trace |-> Trace(jobTitle, jobDescription, llmCalled, verdict, FALSE, NoApply),
            status |-> "Skipped (LLM)"]
      ELSE IF NoSignal(jobDescription, isInitialMatch.matches)
      THEN [res |-> Res(FALSE, TRUE, FALSE, "Skipped - No LLM info & No initial match", "null"),
            trace |-> Trace(jobTitle, jobDescription, llmCalled, verdict, FALSE, NoApply),
            status |-> "Skipped - No LLM info & No initial match"]
      ELSE IF \/ verdict \in {"MATCH", "PARTIAL_MATCH"}
              \/ (~jobDescription /\ isInitialMatch.matches)
              \/ isInitialMatch.matches
      THEN [res |-> Applied(ap.ret, verdict),
            trace |-> Trace(jobTitle, jobDescription, llmCalled, verdict, TRUE, ap),
            status |-> AppliedStatus(ap.ret)]
      ELSE [res |-> Res(FALSE, TRUE, FALSE, "Skipped (No LLM Match or Fallback Failed)", verdict),
            trace |-> Trace(jobTitle, jobDescription, llmCalled, verdict, FALSE, NoApply),
            status |-> "Skipped (No LLM Match or Fallback Failed)"]

\* Variant: the catch block rethrows, so that the call rejects without an
\* outcome and without a record of its own.
processJobCatch_rethrow ==
  [res |-> Res(FALSE, FALSE, FALSE, "none", "null"), trace |-> NoTrace,
   status |-> "rejected"]

\* The catch block of processJob: a failed outcome carrying the message.
processJobCatch ==
  [res |-> Res(FALSE, FALSE, FALSE, "err", "null"), trace |-> NoTrace,
   status |-> "Failed - err"]

\* The early returns of lines 789-834, each with the status it logs.
EarlyReturn(skipped, reason, status) ==
  [res |-> Res(FALSE, skipped, FALSE, reason, "null"), trace |-> NoTrace,
   status |-> status]

(* ---------------------------------------------------------------------- *)
(* The tasks of a group: the callback of batch.map and the processJob call *)
(* it makes.  pc: "timer" (the stagger timer), "opening" (Promise.all of   *)
(* waitForEvent and click), "detail" (the work on the new tab), "closing"  *)
(* (the finally block), "settled".                                         *)
(* ---------------------------------------------------------------------- *)
Slots == 0..(MAX_CONCURRENT_TABS - 1)

NoTab == MainPage - 1

NoTime == 0 - 1

\* Line 1003: the delay of the stagger timer of the task at position index
\* of its group.
StaggerDelay_none(index) == 0

StaggerDelay(index) == index * TAB_DELAY

\* due: the delay of the task's stagger timer; at: the time, since the group
\* was started, at which the timer fired; newTab: the view the call holds;
\* opened: the view its own click opened; logged: the statuses the call has
\* handed to logger.logJob; threw: a step of the call raised an exception
\* inside the try block.
NoTask ==
  [pc |-> "none", card |-> 0, click |-> "none", wait |-> "none", newTab |-> NoTab,
   opened |-> NoTab, due |-> 0, at |-> NoTime, res |-> NoRes, trace |-> NoTrace,
   logged |-> <<>>, threw |-> FALSE]

\* A return of processJob (after its log record) with no tab to close.
Settled(t, out) ==
  [t EXCEPT !.pc = "settled", !.res = out.res, !.trace = out.trace,
            !.logged = Append(@, out.status), !.click = "none", !.wait = "none"]

\* An exception of a step inside the try block: the catch block logs and
\* returns, with no tab to close.
Caught(t) == Settled([t EXCEPT !.threw = TRUE], processJobCatch)

\* Line 1004-1005: the placeholder of the batch.map callback; processJob is
\* not called and nothing is logged.
Placeholder(t) ==
  [t EXCEPT !.pc = "settled", !.res = Res(FALSE, TRUE, FALSE, "Context closed", "null")]

\* Lines 788-821 up to the first suspension that other tasks can observe:
\* the context test, the link count, and the start of waitForEvent and click.
ProcessJobEntry(k, ts, faults) ==
  IF ctxPages = {}
  THEN /\ tasks' = [ts EXCEPT ![k] =
                      Settled(@, EarlyReturn(TRUE, "Context closed",
                                             "Skipped - Context closed"))]
       /\ logger' = logJob(logger)
  ELSE \E cnt \in PageOutcomes(PageIsClosed, {"one"} \cup Faulty(faults, {"zero", "throw"})) :
         CASE cnt = "one" ->
                /\ tasks' = [ts EXCEPT ![k] =
                               [@ EXCEPT !.pc = "opening", !.click = "pending",
                                         !.wait = "waiting"]]
                /\ logger' = logger
           [] cnt = "zero" ->
                /\ tasks' = [ts EXCEPT ![k] =
                               Settled(@, EarlyReturn(FALSE, "No clickable link",
                                                      "Failed - No clickable link"))]
                /\ logger' = logJob(logger)
           [] OTHER ->
                /\ tasks' = [ts EXCEPT ![k] = Caught(@)]
                /\ logger' = logJob(logger)

\* Line 1003-1006: the stagger timer of the task fires, no earlier than its
\* delay after the group was started.  Timers set in one turn fire in the
\* order of their delays, and in index order when the delays are equal.
TimerFire(k, faults) ==
  /\ b.pc = "group"
  /\ tasks[k].pc = "timer"
  /\ tasks[k].due <= b.now
  /\ \A j \in Slots : j < k => tasks[j].pc # "timer"
  /\ LET fired == [tasks EXCEPT ![k] = [@ EXCEPT !.at = b.now]]
     IN  IF ctxPages = {}
         THEN /\ tasks' = [fired EXCEPT ![k] = Placeholder(@)]
              /\ logger' = logger
         ELSE ProcessJobEntry(k, fired, faults)
  /\ UNCHANGED <<ctxPages, g, d, stats, b, results, env, a>>

\* Time passes while the group waits for its next stagger timer: a timer
\* that is due fires before a later one becomes due.
Tick ==
  /\ b.pc = "group"
  /\ LET pending == {tasks[k].due : k \in {j \in Slots : tasks[j].pc = "timer"}}
     IN  /\ pending # {}
         /\ \A due \in pending : due > b.now
         /\ b' = [b EXCEPT !.now = Min(pending)]
  /\ UNCHANGED <<ctxPages, g, d, stats, results, tasks, logger, env, a>>

\* A new tab appears in the context: every waitForEvent("page") that is
\* pending resolves with it.
Deliver(ts, tab) ==
  [j \in Slots |->
     IF ts[j].pc = "opening" /\ ts[j].wait = "waiting"
     THEN [ts[j] EXCEPT !.wait = "got", !.newTab = tab]
     ELSE ts[j]]

\* Lines 822-834: Promise.all is fulfilled; the test of the new tab.
AfterOpen(t, pages, lg) ==
  IF t.newTab = NoTab \/ t.newTab \notin pages
  THEN [task |-> Settled(t, EarlyReturn(FALSE, "Tab opening error",
                                        "Failed - Tab opening error")),
        logger |-> logJob(lg)]
  ELSE [task |-> [t EXCEPT !.pc = "detail", !.click = "none", !.wait = "none"],
        logger |-> lg]

Max(S) == CHOOSE x \in S : \A y \in S : x >= y

\* The identity of the next tab to open: one no open view has and no task
\* still holds.
NewTab ==
  1 + Max(ctxPages \cup {tasks[j].newTab : j \in Slots}
            \cup {tasks[j].opened : j \in Slots} \cup {MainPage})

\* The click of task k opens its tab.
ClickLand(k) ==
  /\ tasks[k].pc = "opening"
  /\ tasks[k].click = "pending"
  /\ MainPage \in ctxPages
  /\ LET tab == NewTab
         pages == ctxPages \cup {tab}
         ts == Deliver(tasks, tab)
         nxt == AfterOpen([ts[k] EXCEPT !.click = "landed", !.opened = tab], pages, logger)
     IN  /\ ctxPages' = pages
         /\ tasks' = [ts EXCEPT ![k] = nxt.task]
         /\ logger' = nxt.logger
  /\ UNCHANGED <<g, d, stats, b, results, env, a>>

\* The click of task k throws: Promise.all rejects, the catch block runs
\* with newTab still null.
ClickFail(k) ==
  /\ tasks[k].pc = "opening"
  /\ tasks[k].click = "pending"
  /\ tasks' = [tasks EXCEPT ![k] = Caught([@ EXCEPT !.newTab = NoTab])]
  /\ logger' = logJob(logger)
  /\ UNCHANGED <<ctxPages, g, d, stats, b, results, env, a>>

\* waitForEvent("page") times out: Promise.all rejects while the click is
\* still in flight.
\* (the click may still open its tab later, or never)
WaitTimeout(k) ==
  /\ tasks[k].pc = "opening"
  /\ tasks[k].wait = "waiting"
  /\ tasks' = [tasks EXCEPT ![k] = Caught([@ EXCEPT !.newTab = NoTab])]
  /\ logger' = logJob(logger)
  /\ \E lands \in {FALSE} \cup {x \in {TRUE} : env.late < MaxLate} :
       env' = [env EXCEPT !.late = IF lands THEN @ + 1 ELSE @]
  /\ UNCHANGED <<ctxPages, g, d, stats, b, results, a>>

\* A click whose task gave up waiting opens its tab after all.
LateClickLand ==
  /\ env.late > 0
  /\ MainPage \in ctxPages
  /\ LET tab == NewTab
     IN  /\ ctxPages' = ctxPages \cup {tab}
         /\ env' = [env EXCEPT !.late = @ - 1]
         /\ tasks' = Deliver(tasks, tab)
  /\ UNCHANGED <<g, d, stats, b, results, logger, a>>

\* Lines 836-975 on the new tab: load, extraction, decision, application
\* and the log record of the outcome.
Detail(k, Inputs, faults) ==
  /\ tasks[k].pc = "detail"
  /\ IF tasks[k].newTab \notin ctxPages
     THEN tasks' = [tasks EXCEPT ![k] =
                      [@ EXCEPT !.pc = "closing", !.res = processJobCatch.res,
                                !.trace = processJobCatch.trace,
                                !.logged = Append(@, processJobCatch.status),
                                !.threw = TRUE]]
     ELSE \E in \in Inputs, load \in {"ok"} \cup Faulty(faults, {"throw"}) :
            LET out == IF load = "ok" THEN processJobDecide(in, env.cfg)
                       ELSE processJobCatch
            IN  tasks' = [tasks EXCEPT ![k] =
                            [@ EXCEPT !.pc = "closing", !.res = out.res,
                                      !.trace = out.trace,
                                      !.logged = Append(@, out.status),
                                      !.threw = (load # "ok")]]
  /\ logger' = logJob(logger)
  /\ UNCHANGED <<ctxPages, g, d, stats, b, results, env, a>>

\* Lines 976-984: the finally block closes the tab the task holds.
Finally(k) ==
  /\ tasks[k].pc = "closing"
  /\ ctxPages' = ctxPages \ {tasks[k].newTab}
  /\ tasks' = [tasks EXCEPT ![k] = [@ EXCEPT !.pc = "settled"]]
  /\ UNCHANGED <<g, d, stats, b, results, logger, env, a>>

(* ---------------------------------------------------------------------- *)
(* processJobBatch                                                         *)
(* b.pc: "idle" (no call), "group" (awaiting Promise.allSettled), "pause"  *)
(* (the pause between groups), "done" (returned).  b.groups, b.started and *)
(* b.aborted record the sizes of the groups started, the cards a task was  *)
(* created for, and whether a "context closed" break ended the loop.       *)
(* ---------------------------------------------------------------------- *)
BatchIdle ==
  [pc |-> "idle", i |-> 0, n |-> 0, groups |-> <<>>, started |-> {}, aborted |-> FALSE,
   now |-> 0]

\* jobCards.slice(i, i + MAX_CONCURRENT_TABS): the indices of the group.
BatchSlice_short(i, n) ==
  {c \in 0..(n - 1) : i <= c /\ c < i + MAX_CONCURRENT_TABS - 1}

BatchSlice(i, n) ==
  {c \in 0..(n - 1) : i <= c /\ c < i + MAX_CONCURRENT_TABS}

\* Variant: the loop head without the test of context.pages().
LoopHead_noContextCheck(bb, i, pages) ==
  IF i >= bb.n
  THEN [b |-> [bb EXCEPT !.pc = "done", !.i = i], tasks |-> [k \in Slots |-> NoTask]]
  ELSE LET batch == BatchSlice(i, bb.n)
       IN  [b |-> [bb EXCEPT !.pc = "group", !.i = i, !.now = 0,
                             !.groups = Append(@, Cardinality(batch)),
                             !.started = @ \cup batch],
            tasks |-> [k \in Slots |->
                         IF i + k \in batch
                         THEN [NoTask EXCEPT !.pc = "timer", !.card = i + k,
                                             !.due = StaggerDelay(k)]
                         ELSE NoTask]]

\* Lines 990-1007: the head of the for loop at index i, up to the await of
\* Promise.allSettled: [b, tasks].
LoopHead(bb, i, pages) ==
  IF i >= bb.n
  THEN [b |-> [bb EXCEPT !.pc = "done", !.i = i], tasks |-> [k \in Slots |-> NoTask]]
  ELSE IF pages = {}
  THEN [b |-> [bb EXCEPT !.pc = "done", !.i = i, !.aborted = TRUE],
        tasks |-> [k \in Slots |-> NoTask]]
  ELSE LET batch == BatchSlice(i, bb.n)
       IN  [b |-> [bb EXCEPT !.pc = "group", !.i = i, !.now = 0,
                             !.groups = Append(@, Cardinality(batch)),
                             !.started = @ \cup batch],
            tasks |-> [k \in Slots |->
                         IF i + k \in batch
                         THEN [NoTask EXCEPT !.pc = "timer", !.card = i + k,
                                             !.due = StaggerDelay(k)]
                         ELSE NoTask]]

processJobBatch(n, pages) == LoopHead([BatchIdle EXCEPT !.n = n], 0, pages)

\* The entry of the results array for a settled task.  applyOk records that
\* the card's applyToJob call reported a fresh application.
Entry(t) ==
  [card |-> t.card, res |-> t.res,
   applyOk |-> t.trace.applyCalled /\ t.trace.apply.ret.success
                 /\ ~t.trace.apply.ret.alreadyApplied]

\* Variant: the results after the first failed task are dropped, as with a
\* fail-fast wait for the group.
RECURSIVE Collect_untilFailure(_, _)
Collect_untilFailure(ts, k) ==
  IF k \notin Slots THEN <<>>
  ELSE IF ts[k].pc # "settled" THEN Collect_untilFailure(ts, k + 1)
  ELSE IF ~ts[k].res.success THEN <<Entry(ts[k])>>
  ELSE <<Entry(ts[k])>> \o Collect_untilFailure(ts, k + 1)

\* Variant: the settled results are pushed last task first.
RECURSIVE Collect_reversed(_, _)
Collect_reversed(ts, k) ==
  IF k \notin Slots THEN <<>>
  ELSE Collect_reversed(ts, k + 1) \o (IF ts[k].pc = "settled" THEN <<Entry(ts[k])>> ELSE <<>>)

RECURSIVE Collect(_, _)
Collect(ts, k) ==
  IF k \notin Slots THEN <<>>
  ELSE (IF ts[k].pc = "settled" THEN <<Entry(ts[k])>> ELSE <<>>) \o Collect(ts, k + 1)

\* Variant: the loop goes on as soon as one task of the group has settled.
GroupSettle_early ==
  /\ b.pc = "group"
  /\ \E k \in Slots : tasks[k].pc = "settled"
  /\ results' = results \o Collect(tasks, 0)
  /\ tasks' = [k \in Slots |-> NoTask]
  /\ b' = IF b.i + MAX_CONCURRENT_TABS < b.n
          THEN IF ctxPages = {} THEN [b EXCEPT !.pc = "done", !.aborted = TRUE]
               ELSE [b EXCEPT !.pc = "pause"]
          ELSE [b EXCEPT !.pc = "done", !.i = b.i + MAX_CONCURRENT_TABS]
  /\ UNCHANGED <<ctxPages, g, d, stats, logger, env, a>>

\* Variant: the wait only ends once MAX_CONCURRENT_TABS tasks have settled,
\* also for a last group that is shorter.
GroupSettle_fullGroup ==
  /\ b.pc = "group"
  /\ \A k \in Slots : tasks[k].pc = "settled"
  /\ results' = results \o Collect(tasks, 0)
  /\ tasks' = [k \in Slots |-> NoTask]
  /\ b' = IF b.i + MAX_CONCURRENT_TABS < b.n
          THEN IF ctxPages = {} THEN [b EXCEPT !.pc = "done", !.aborted = TRUE]
               ELSE [b EXCEPT !.pc = "pause"]
          ELSE [b EXCEPT !.pc = "done", !.i = b.i + MAX_CONCURRENT_TABS]
  /\ UNCHANGED <<ctxPages, g, d, stats, logger, env, a>>

\* Lines 1009-1022: the group has settled; its results are pushed in index
\* order, then the pause or the end of the loop.
GroupSettle ==
  /\ b.pc = "group"
  /\ \A k \in Slots : tasks[k].pc \in {"none", "settled"}
  /\ results' = results \o Collect(tasks, 0)
  /\ tasks' = [k \in Slots |-> NoTask]
  /\ b' = IF b.i + MAX_CONCURRENT_TABS < b.n
          THEN IF ctxPages = {} THEN [b EXCEPT !.pc = "done", !.aborted = TRUE]
               ELSE [b EXCEPT !.pc = "pause"]
          ELSE [b EXCEPT !.pc = "done", !.i = b.i + MAX_CONCURRENT_TABS]
  /\ UNCHANGED <<ctxPages, g, d, stats, logger, env, a>>

\* Line 1021 and the next turn of the loop.
PauseDone ==
  /\ b.pc = "pause"
  /\ LET nxt == LoopHead(b, b.i + MAX_CONCURRENT_TABS, ctxPages)
     IN  /\ b' = nxt.b
         /\ tasks' = nxt.tasks
  /\ UNCHANGED <<ctxPages, g, d, stats, results, logger, env, a>>

(* ---------------------------------------------------------------------- *)
(* The statistics fold of the search driver                                *)
(* ---------------------------------------------------------------------- *)
StatsInit == [total |-> 0, applied |-> 0, alreadyApplied |-> 0, skipped |-> 0, failed |-> 0]

foldResult_noTotal(st, r) ==
  IF r.success
  THEN IF r.alreadyApplied THEN [st EXCEPT !.alreadyApplied = @ + 1]
       ELSE [st EXCEPT !.applied = @ + 1]
  ELSE IF r.skipped THEN [st EXCEPT !.skipped = @ + 1]
  ELSE [st EXCEPT !.failed = @ + 1]

foldResult_swapped(st, r) ==
  LET counted == [st EXCEPT !.total = @ + 1]
  IN  IF r.success
      THEN IF r.alreadyApplied THEN [counted EXCEPT !.applied = @ + 1]
           ELSE [counted EXCEPT !.alreadyApplied = @ + 1]
      ELSE IF r.skipped THEN [counted EXCEPT !.skipped = @ + 1]
      ELSE [counted EXCEPT !.failed = @ + 1]

\* Variant: a skipped result is counted as failed as well.
foldResult_doubleCount(st, r) ==
  LET counted == [st EXCEPT !.total = @ + 1]
  IN  IF r.success
      THEN IF r.alreadyApplied THEN [counted EXCEPT !.alreadyApplied = @ + 1]
           ELSE [counted EXCEPT !.applied = @ + 1]
      ELSE IF r.skipped THEN [counted EXCEPT !.skipped = @ + 1, !.failed = @ + 1]
      ELSE [counted EXCEPT !.failed = @ + 1]

foldResult(st, r) ==
  LET counted == [st EXCEPT !.total = @ + 1]
  IN  IF r.success
      THEN IF r.alreadyApplied THEN [counted EXCEPT !.alreadyApplied = @ + 1]
           ELSE [counted EXCEPT !.applied = @ + 1]
      ELSE IF r.skipped THEN [counted EXCEPT !.skipped = @ + 1]
      ELSE [counted EXCEPT !.failed = @ + 1]

RECURSIVE foldResults(_, _)
foldResults(st, rs) ==
  IF rs = <<>> THEN st ELSE foldResults(foldResult(st, Head(rs).res), Tail(rs))

(* ---------------------------------------------------------------------- *)
(* The search driver: the body of one "Batch" test                         *)
(* d.pc: "login", "goto" (awaiting safeGoto), "markers" (awaiting the card *)
(* marker), "batch" (awaiting processJobBatch), "closed" (the finally      *)
(* block has closed the context).  d.ev is the last thing the driver did.  *)
(* ---------------------------------------------------------------------- *)
DefaultRetries == 2

DriverInit == [pc |-> "login", term |-> 1, page |-> 1, ev |-> "start"]

\* Lines 1252-1266 and 1322-1324: the two loop heads at (term, page), up to
\* the call of safeGoto, or the finally block once the terms are exhausted:
\* [d, g, pages].  A closed main page breaks out of every remaining term.
DriverAt_noPageLimit(dd, term, page, ev, pages) ==
  IF term > NumTerms \/ MainPage \notin pages
  THEN [d |-> [dd EXCEPT !.pc = "closed", !.term = term, !.page = page, !.ev = ev],
        g |-> GotoIdle, pages |-> {}]
  ELSE [d |-> [dd EXCEPT !.pc = "goto", !.term = term, !.page = page, !.ev = ev],
        g |-> safeGoto(DefaultRetries, FALSE), pages |-> pages]

DriverAt(dd, term, page, ev, pages) ==
  LET t == IF page > MAX_PAGES THEN term + 1 ELSE term
      p == IF page > MAX_PAGES THEN 1 ELSE page
  IN  IF t > NumTerms \/ MainPage \notin pages
      THEN [d |-> [dd EXCEPT !.pc = "closed", !.term = t, !.page = p, !.ev = ev],
            g |-> GotoIdle, pages |-> {}]
      ELSE [d |-> [dd EXCEPT !.pc = "goto", !.term = t, !.page = p, !.ev = ev],
            g |-> safeGoto(DefaultRetries, FALSE), pages |-> pages]

\* Variant: the exception leaves the test without a finally block, and the
\* context stays open.
DriverThrow_noFinally(dd, ev) ==
  [d |-> [dd EXCEPT !.pc = "closed", !.ev = ev], g |-> GotoIdle, pages |-> {MainPage}]

\* An exception leaves the try block: the finally block closes the context.
DriverThrow(dd, ev) ==
  [d |-> [dd EXCEPT !.pc = "closed", !.ev = ev], g |-> GotoIdle, pages |-> {}]

\* Line 1267-1270: what the driver does when safeGoto returned false.
AfterGotoFalse_break(dd, pages) == DriverAt(dd, dd.term + 1, 1, "gotoFalse", pages)

AfterGotoFalse(dd, pages) == DriverAt(dd, dd.term, dd.page + 1, "gotoFalse", pages)

\* Line 1276-1281: what the driver does when no card marker appeared.
AfterNoMarkers_continue(dd, pages) == DriverAt(dd, dd.term, dd.page + 1, "noMarkers", pages)

AfterNoMarkers(dd, pages) == DriverAt(dd, dd.term + 1, 1, "noMarkers", pages)

\* Line 1250: performLogin.
Login(faults) ==
  /\ d.pc = "login"
  /\ \E out \in PageOutcomes(PageIsClosed, {"ok"} \cup Faulty(faults, {"throw"})) :
       LET nxt == IF out = "ok" THEN DriverAt(d, 1, 1, "login", ctxPages)
                  ELSE DriverThrow(d, "loginFailed")
       IN  /\ d' = nxt.d
           /\ g' = nxt.g
           /\ ctxPages' = nxt.pages
  /\ UNCHANGED <<stats, b, results, tasks, logger, env, a>>

\* Lines 1266-1270: safeGoto has returned (or raised).
GotoDone ==
  /\ d.pc = "goto"
  /\ g.pc = "done"
  /\ LET nxt == CASE g.ret = "true" ->
                       [d |-> [d EXCEPT !.pc = "markers", !.ev = "gotoTrue"],
                        g |-> GotoIdle, pages |-> ctxPages]
                  [] g.ret = "false" -> AfterGotoFalse(d, ctxPages)
                  [] OTHER -> DriverThrow(d, "raised")
     IN  /\ d' = nxt.d
         /\ g' = nxt.g
         /\ ctxPages' = nxt.pages
  /\ UNCHANGED <<stats, b, results, tasks, logger, env, a>>

\* The numbers of cards a results page can list.
CardCounts(faults) ==
  IF faults THEN 0..(IF env.jobsLeft < MaxCards THEN env.jobsLeft ELSE MaxCards)
  ELSE {env.jobsLeft}

\* Lines 1272-1295 and 1314-1319: the wait for a card marker, the card list
\* and the call of processJobBatch.
Markers(faults) ==
  /\ d.pc = "markers"
  /\ \E out \in PageOutcomes(PageIsClosed,
                             (IF env.jobsLeft > 0 THEN {"found"} ELSE {"timeout"})
                               \cup Faulty(faults, {"timeout", "found", "allThrows"})) :
       CASE out = "found" ->
              \E n \in CardCounts(faults) :
                IF n > 0
                THEN LET call == processJobBatch(n, ctxPages)
                     IN  /\ d' = [d EXCEPT !.pc = "batch", !.ev = "batch"]
                         /\ b' = call.b
                         /\ tasks' = call.tasks
                         /\ results' = <<>>
                         /\ env' = [env EXCEPT !.jobsLeft = @ - n]
                         /\ UNCHANGED <<ctxPages, g>>
                ELSE LET nxt == DriverAt(d, d.term + 1, 1, "noCards", ctxPages)
                     IN  /\ d' = nxt.d
                         /\ g' = nxt.g
                         /\ ctxPages' = nxt.pages
                         /\ UNCHANGED <<b, tasks, results, env>>
         [] out = "allThrows" ->
              LET nxt == DriverThrow(d, "raised")
              IN  /\ d' = nxt.d
                  /\ g' = nxt.g
                  /\ ctxPages' = nxt.pages
                  /\ UNCHANGED <<b, tasks, results, env>>
         [] OTHER ->
              LET nxt == AfterNoMarkers(d, ctxPages)
              IN  /\ d' = nxt.d
                  /\ g' = nxt.g
                  /\ ctxPages' = nxt.pages
                  /\ UNCHANGED <<b, tasks, results, env>>
  /\ UNCHANGED <<stats, logger, a>>

\* Lines 1296-1313: processJobBatch has returned; every result is folded
\* into the statistics and the page loop goes on.
Fold ==
  /\ d.pc = "batch"
  /\ b.pc = "done"
  /\ stats' = foldResults(stats, results)
  /\ LET nxt == DriverAt(d, d.term, d.page + 1, "folded", ctxPages)
     IN  /\ d' = nxt.d
         /\ g' = nxt.g
         /\ ctxPages' = nxt.pages
  /\ b' = BatchIdle
  /\ results' = <<>>
  /\ UNCHANGED <<tasks, logger, env, a>>

\* The browser, the user or the site closes the main page, or every view of
\* the context, while the test runs.
EnvClose ==
  /\ d.pc # "closed"
  /\ ctxPages # {}
  /\ \E gone \in {{MainPage}, ctxPages} : ctxPages' = ctxPages \ gone
  /\ ctxPages' # ctxPages
  /\ UNCHANGED <<g, d, stats, b, results, tasks, logger, env, a>>

(* ---------------------------------------------------------------------- *)
(* Inputs: what the detail views of the site answer                        *)
(* ---------------------------------------------------------------------- *)
TitleAlphabet == {"Q", "a", " "}

RawTitles == SeqsUpTo(TitleAlphabet, MaxTitleLen)

Element(raw) == [tc |-> raw, it |-> <<>>]

In(els, desc, api, view) ==
  [els |-> els, h1s |-> <<>>, desc |-> desc, api |-> api, view |-> view]

ApiReply(c) == [kind |-> "reply", content |-> c]
ApiThrows == [kind |-> "throws", content |-> <<>>]

ViewApply == MkView({<<"apply", 1>>}, {}, "never")
ViewApplyForm ==
  MkView({<<"apply", 3>>, <<"next", 1>>, <<"submit", 1>>, <<"confirm", 1>>}, {}, "never")
ViewAlready == MkView({<<"already", 1>>, <<"apply", 1>>}, {}, "never")
ViewNone == MkView({}, {}, "never")
ViewClosed == MkView({<<"apply", 1>>}, {}, "entry")

TitleQaPadded == <<"Q", "a", " ", " ">>
TitleQAPadded == <<"Q", "A", " ", " ">>
TitleSeniorQa == <<"x", " ", "q", "a", " ">>

\* The detail views of the run of the whole test: one per kind of outcome.
BatchInputs ==
  { In(<<Element(TitleQaPadded)>>, FALSE, ApiReply(ReplyMATCH), ViewApply),
    In(<<Element(TitleQaPadded)>>, FALSE, ApiReply(ReplyMATCH), ViewAlready),
    In(<<Element(TitleQaPadded)>>, TRUE, ApiReply(ReplyMATCH), ViewNone),
    In(<<>>, FALSE, ApiReply(ReplyMATCH), ViewApply),
    In(<<>>, TRUE, ApiReply(ReplyOther), ViewApply),
    In(<<>>, TRUE, ApiReply(ReplyMATCH), ViewApply) }

\* The detail views of a direct call of processJobBatch: one that is applied
\* to and one that is skipped.
TerminationInputs ==
  { In(<<Element(TitleQaPadded)>>, FALSE, ApiReply(ReplyMATCH), ViewApply),
    In(<<>>, FALSE, ApiReply(ReplyMATCH), ViewApply) }

\* The detail views of a direct call of processJob.
JobInputs ==
  {In(els, desc, api, view) :
     els \in {<<>>} \cup {<<Element(raw)>> : raw \in RawTitles},
     desc \in BOOLEAN,
     api \in ApiBehaviours,
     view \in {ViewApply, ViewAlready, ViewNone, ViewClosed}}

\* The detail views of the end-to-end scenario: every title matches the
\* search term and every view offers an apply control and no "already
\* applied" indicator.
E2EInputs ==
  {In(<<Element(raw)>>, desc, ApiReply(ReplyMATCH), view) :
     raw \in {TitleQaPadded, TitleQAPadded, TitleSeniorQa},
     desc \in BOOLEAN,
     view \in {ViewApply, ViewApplyForm}}

E2ECards == 3 * MAX_CONCURRENT_TABS + 1

Cfg(groq, keywords) == [groq |-> groq, keywords |-> keywords]

EnvInit(jobs, cfg) == [jobsLeft |-> jobs, late |-> 0, cfg |-> cfg]

ApplyIdle == [pc |-> "idle", view |-> ViewNone, out |-> NoApply]

(* ---------------------------------------------------------------------- *)
(* Spec: one "Batch" test, from the login to the closing of the context,   *)
(* with every fault of the page, the site and the context.                 *)
(* ---------------------------------------------------------------------- *)
Init ==
  /\ ctxPages = {MainPage}
  /\ g = GotoIdle
  /\ d = DriverInit
  /\ stats = StatsInit
  /\ b = BatchIdle
  /\ results = <<>>
  /\ tasks = [k \in Slots |-> NoTask]
  /\ logger = LoggerInit
  /\ env = EnvInit(MaxJobs, Cfg(TRUE, 1))
  /\ a = ApplyIdle

Next ==
  \/ Login(TRUE)
  \/ GotoAwait(TRUE)
  \/ GotoSettle
  \/ GotoTitle(TRUE)
  \/ GotoBackoff
  \/ GotoDone
  \/ Markers(TRUE)
  \/ \E k \in Slots : TimerFire(k, TRUE)
  \/ Tick
  \/ \E k \in Slots : ClickLand(k)
  \/ \E k \in Slots : ClickFail(k)
  \/ \E k \in Slots : WaitTimeout(k)
  \/ LateClickLand
  \/ \E k \in Slots : Detail(k, BatchInputs, TRUE)
  \/ \E k \in Slots : Finally(k)
  \/ GroupSettle
  \/ PauseDone
  \/ Fold
  \/ EnvClose

Spec == Init /\ [][Next]_vars

(* ---------------------------------------------------------------------- *)
(* SpecE2E: the same test on a site without faults that lists E2ECards     *)
(* cards on the first results page and none after it.                      *)
(* ---------------------------------------------------------------------- *)
InitE2E ==
  /\ ctxPages = {MainPage}
  /\ g = GotoIdle
  /\ d = DriverInit
  /\ stats = StatsInit
  /\ b = BatchIdle
  /\ results = <<>>
  /\ tasks = [k \in Slots |-> NoTask]
  /\ logger = LoggerInit
  /\ env = EnvInit(E2ECards, Cfg(TRUE, 1))
  /\ a = ApplyIdle

NextE2E ==
  \/ Login(FALSE)
  \/ GotoAwait(FALSE)
  \/ GotoSettle
  \/ GotoTitle(FALSE)
  \/ GotoDone
  \/ Markers(FALSE)
  \/ \E k \in Slots : TimerFire(k, FALSE)
  \/ Tick
  \/ \E k \in Slots : ClickLand(k)
  \/ \E k \in Slots : Detail(k, E2EInputs, FALSE)
  \/ \E k \in Slots : Finally(k)
  \/ GroupSettle
  \/ PauseDone
  \/ Fold

SpecE2E == InitE2E /\ [][NextE2E]_vars

(* ---------------------------------------------------------------------- *)
(* SpecGoto: one call of safeGoto, with any retries argument up to         *)
(* MaxRetries, on a page that may be closed on entry or at any later time. *)
(* ---------------------------------------------------------------------- *)
InitGoto ==
  /\ ctxPages \in {{MainPage}, {}}
  /\ \E retries \in 0..MaxRetries : g = safeGoto(retries, MainPage \notin ctxPages)
  /\ d = [DriverInit EXCEPT !.pc = "direct"]
  /\ stats = StatsInit
  /\ b = BatchIdle
  /\ results = <<>>
  /\ tasks = [k \in Slots |-> NoTask]
  /\ logger = LoggerInit
  /\ env = EnvInit(0, Cfg(TRUE, 1))
  /\ a = ApplyIdle

NextGoto ==
  \/ GotoAwait(TRUE)
  \/ GotoSettle
  \/ GotoTitle(TRUE)
  \/ GotoBackoff
  \/ EnvClose

SpecGoto == InitGoto /\ [][NextGoto]_vars

(* ---------------------------------------------------------------------- *)
(* SpecJob: one direct call of processJob on a context that may be closed  *)
(* on entry or at any later time, for every title and scorer configuration.*)
(* ---------------------------------------------------------------------- *)
JobCall ==
  /\ tasks[0].pc = "call"
  /\ ProcessJobEntry(0, tasks, TRUE)
  /\ UNCHANGED <<ctxPages, g, d, stats, b, results, env, a>>

InitJob ==
  /\ ctxPages \in {{MainPage}, {}}
  /\ g = GotoIdle
  /\ d = [DriverInit EXCEPT !.pc = "direct"]
  /\ stats = StatsInit
  /\ b = BatchIdle
  /\ results = <<>>
  /\ tasks = [k \in Slots |-> IF k = 0 THEN [NoTask EXCEPT !.pc = "call"] ELSE NoTask]
  /\ logger = LoggerInit
  /\ \E groq \in BOOLEAN, keywords \in 0..1 : env = EnvInit(0, Cfg(groq, keywords))
  /\ a = ApplyIdle

NextJob ==
  \/ JobCall
  \/ ClickLand(0)
  \/ ClickFail(0)
  \/ WaitTimeout(0)
  \/ LateClickLand
  \/ Detail(0, JobInputs, TRUE)
  \/ Finally(0)
  \/ EnvClose

SpecJob == InitJob /\ [][NextJob]_vars

(* ---------------------------------------------------------------------- *)
(* SpecApply: one direct call of applyToJob on every view of ApplyViews    *)
(* with at most MaxVisible selectors that find an element.                 *)
(* ---------------------------------------------------------------------- *)
ApplyCall ==
  /\ a.pc = "call"
  /\ a' = [a EXCEPT !.pc = "done", !.out = applyToJob(a.view)]
  /\ UNCHANGED <<ctxPages, g, d, stats, b, results, tasks, logger, env>>

InitApply ==
  /\ ctxPages = {MainPage}
  /\ g = GotoIdle
  /\ d = [DriverInit EXCEPT !.pc = "direct"]
  /\ stats = StatsInit
  /\ b = BatchIdle
  /\ results = <<>>
  /\ tasks = [k \in Slots |-> NoTask]
  /\ logger = LoggerInit
  /\ env = EnvInit(0, Cfg(TRUE, 1))
  /\ \E view \in ApplyViews(MaxVisible) : a = [ApplyIdle EXCEPT !.pc = "call", !.view = view]

SpecApply == InitApply /\ [][ApplyCall]_vars

(* ---------------------------------------------------------------------- *)
(* SpecLLM: one direct call of checkJobMatchWithLLM, with or without a     *)
(* client, keywords and a description, on every behaviour of the           *)
(* completion request: an exception, no content, or a reply of at most     *)
(* MaxWords words.                                                         *)
(* ---------------------------------------------------------------------- *)
ReplyWords == {ReplyMATCH, ReplyPARTIAL, ReplyNO, ReplyOther}

RECURSIVE Sentences(_)
Sentences(n) ==
  IF n = 0 THEN {<<>>}
  ELSE LET shorter == Sentences(n - 1)
       IN  shorter \cup {IF s = <<>> THEN w ELSE s \o <<" ">> \o w :
                           s \in shorter, w \in ReplyWords}

LLMApis ==
  {[kind |-> "throws", content |-> <<>>], [kind |-> "null", content |-> <<>>]}
    \cup {[kind |-> "reply", content |-> c] : c \in Sentences(MaxWords)}

LLMIn(groq, keywords, desc, api) ==
  [groq |-> groq, keywords |-> keywords, desc |-> desc, api |-> api]

LLMCall ==
  /\ a.pc = "call"
  /\ a' = [a EXCEPT !.pc = "done",
                    !.out = [match |-> checkJobMatchWithLLM(a.in.groq, a.in.keywords,
                                                            a.in.desc, a.in.api),
                             called |-> CallsApi(a.in.groq, a.in.keywords, a.in.desc)]]
  /\ UNCHANGED <<ctxPages, g, d, stats, b, results, tasks, logger, env>>

InitLLM ==
  /\ ctxPages = {MainPage}
  /\ g = GotoIdle
  /\ d = [DriverInit EXCEPT !.pc = "direct"]
  /\ stats = StatsInit
  /\ b = BatchIdle
  /\ results = <<>>
  /\ tasks = [k \in Slots |-> NoTask]
  /\ logger = LoggerInit
  /\ env = EnvInit(0, Cfg(TRUE, 1))
  /\ \E groq \in BOOLEAN, keywords \in 0..MaxKeywords, desc \in BOOLEAN, api \in LLMApis :
       a = [pc |-> "call", in |-> LLMIn(groq, keywords, desc, api),
            out |-> [match |-> "null", called |-> FALSE]]

SpecLLM == InitLLM /\ [][LLMCall]_vars

(* ---------------------------------------------------------------------- *)
(* SpecTitle: one direct call of extractJobTitleFromDetailPage on a view   *)
(* whose title selectors find no, one or two elements and whose h1 pass    *)
(* finds none or one.  The textContent of an element is any text of at     *)
(* most MaxTitleLen letters and spaces, its innerText is empty or a title. *)
(* ---------------------------------------------------------------------- *)
TitleTexts == SeqsUpTo({"a", " "}, MaxTitleLen)

InnerTexts == {<<>>, <<"Q", "A", " ", "L", "e", "a", "d">>}

TitleElements == {[tc |-> t, it |-> i] : t \in TitleTexts, i \in InnerTexts}

TitleLists ==
  {<<>>} \cup {<<e>> : e \in TitleElements}
    \cup {<<e1, e2>> : e1 \in TitleElements, e2 \in TitleElements}

H1Lists ==
  {<<>>, <<[tc |-> <<" ">>, it |-> <<>>]>>,
   <<[tc |-> <<"H", "e", "a", "d">>, it |-> <<>>]>>}

TitleCall ==
  /\ a.pc = "call"
  /\ a' = [a EXCEPT !.pc = "done",
                    !.out = extractJobTitleFromDetailPage(a.in.els, a.in.h1s)]
  /\ UNCHANGED <<ctxPages, g, d, stats, b, results, tasks, logger, env>>

InitTitle ==
  /\ ctxPages = {MainPage}
  /\ g = GotoIdle
  /\ d = [DriverInit EXCEPT !.pc = "direct"]
  /\ stats = StatsInit
  /\ b = BatchIdle
  /\ results = <<>>
  /\ tasks = [k \in Slots |-> NoTask]
  /\ logger = LoggerInit
  /\ env = EnvInit(0, Cfg(TRUE, 1))
  /\ \E els \in TitleLists, h1s \in H1Lists :
       a = [pc |-> "call", in |-> [els |-> els, h1s |-> h1s], out |-> <<>>]

SpecTitle == InitTitle /\ [][TitleCall]_vars

(* ---------------------------------------------------------------------- *)
(* SpecBatch: one direct call of processJobBatch on a list of 1..MaxCards  *)
(* cards, with every fault, on a context that may be closed on entry or at *)
(* any later time.  Fairness: a timer that is due fires; the click and the *)
(* wait for the new view each return or time out; the work on a detail     *)
(* view, the closing of a tab, the wait for the group and the pause, all   *)
(* of them bounded by timeouts, come to their end.                         *)
(* ---------------------------------------------------------------------- *)
InitBatch ==
  /\ ctxPages \in {{MainPage}, {}}
  /\ g = GotoIdle
  /\ d = [DriverInit EXCEPT !.pc = "direct"]
  /\ stats = StatsInit
  /\ \E n \in 1..MaxCards :
       LET call == processJobBatch(n, ctxPages)
       IN  b = call.b /\ tasks = call.tasks
  /\ results = <<>>
  /\ logger = LoggerInit
  /\ env = EnvInit(0, Cfg(TRUE, 1))
  /\ a = ApplyIdle

NextBatch ==
  \/ \E k \in Slots : TimerFire(k, TRUE)
  \/ Tick
  \/ \E k \in Slots : ClickLand(k)
  \/ \E k \in Slots : ClickFail(k)
  \/ \E k \in Slots : WaitTimeout(k)
  \/ LateClickLand
  \/ \E k \in Slots : Detail(k, TerminationInputs, TRUE)
  \/ \E k \in Slots : Finally(k)
  \/ GroupSettle
  \/ PauseDone
  \/ EnvClose

BatchFairness ==
  /\ \A k \in Slots : WF_vars(TimerFire(k, TRUE))
  /\ WF_vars(Tick)
  /\ \A k \in Slots : WF_vars(ClickLand(k) \/ ClickFail(k) \/ WaitTimeout(k))
  /\ \A k \in Slots : WF_vars(Detail(k, TerminationInputs, TRUE))
  /\ \A k \in Slots : WF_vars(Finally(k))
  /\ WF_vars(GroupSettle)
  /\ WF_vars(PauseDone)

SpecBatch == InitBatch /\ [][NextBatch]_vars /\ BatchFairness

(* ---------------------------------------------------------------------- *)
(* SpecLog: the logJob calls of MAX_CONCURRENT_TABS concurrent callers on  *)
(* one logger, at most MaxLogCalls calls each.  A caller is at "call"      *)
(* (between two calls) or at "saving" (suspended in saveExcel, line 588);  *)
(* the other callers run while it is suspended.  tasks[k].logged holds the *)
(* statuses caller k has handed to logJob.                                 *)
(* ---------------------------------------------------------------------- *)
LogStatuses == {"Success - Applied", "Failed - err"}

\* One call of logJob up to its return or its suspension.
LogCall(k) ==
  /\ tasks[k].pc = "call"
  /\ Len(tasks[k].logged) < MaxLogCalls
  /\ \E status \in LogStatuses :
       LET lg == logJob(logger)
       IN  /\ logger' = lg
           /\ tasks' = [tasks EXCEPT ![k] =
                          [@ EXCEPT !.logged = Append(@, status),
                                    !.pc = IF SaveDue(lg) THEN "saving" ELSE "call"]]
  /\ UNCHANGED <<ctxPages, g, d, stats, b, results, env, a>>

\* Lines 609-615: writeFile has finished or failed (saveExcel catches what
\* it throws); the suspended call returns.
SaveDone(k) ==
  /\ tasks[k].pc = "saving"
  /\ tasks' = [tasks EXCEPT ![k] = [@ EXCEPT !.pc = "call"]]
  /\ UNCHANGED <<ctxPages, g, d, stats, b, results, logger, env, a>>

InitLog ==
  /\ ctxPages = {MainPage}
  /\ g = GotoIdle
  /\ d = [DriverInit EXCEPT !.pc = "direct"]
  /\ stats = StatsInit
  /\ b = BatchIdle
  /\ results = <<>>
  /\ tasks = [k \in Slots |-> [NoTask EXCEPT !.pc = "call", !.card = k]]
  /\ logger = LoggerInit
  /\ env = EnvInit(0, Cfg(TRUE, 1))
  /\ a = ApplyIdle

NextLog ==
  \/ \E k \in Slots : LogCall(k)
  \/ \E k \in Slots : SaveDone(k)

SpecLog == InitLog /\ [][NextLog]_vars

(* ---------------------------------------------------------------------- *)
(* SpecCategory: one direct call of categorizeStatus on every status that  *)
(* processJob hands to logJob: the fixed texts of lines 793-946, and       *)
(* "Failed - " followed by the reason of applyToJob or the message of the  *)
(* exception, a text of at most MaxWords words.                            *)
(* ---------------------------------------------------------------------- *)
StatusSuccessApplied ==
  <<"S", "u", "c", "c", "e", "s", "s", " ", "-", " ", "A", "p", "p", "l",
    "i", "e", "d">>
StatusAlreadyApplied ==
  <<"A", "l", "r", "e", "a", "d", "y", " ", "A", "p", "p", "l", "i", "e",
    "d">>
FailedPrefix ==
  <<"F", "a", "i", "l", "e", "d", " ", "-", " ">>

\* The words of the message of an exception.
ReasonWords ==
  { <<"T", "i", "m", "e", "o", "u", "t">>, <<"e", "x", "c", "e", "e", "d", "e", "d">>,
    <<"c", "l", "o", "s", "e", "d">>, <<"A", "p", "p", "l", "i", "e", "d">>,
    <<"s", "u", "c", "c", "e", "s", "s">>, <<"s", "k", "i", "p", "p", "e", "d">>,
    <<"E", "r", "r", "o", "r">> }

RECURSIVE ReasonTexts(_)
ReasonTexts(n) ==
  IF n = 0 THEN {<<>>}
  ELSE LET shorter == ReasonTexts(n - 1)
       IN  shorter \cup {IF s = <<>> THEN w ELSE s \o <<" ">> \o w :
                           s \in shorter, w \in ReasonWords}

\* The "Skipped" statuses of lines 793, 860, 883 and 946.
SkippedStatuses ==
  { <<"S", "k", "i", "p", "p", "e", "d", " ", "-", " ", "C", "o", "n", "t",
      "e", "x", "t", " ", "c", "l", "o", "s", "e", "d">>,
    <<"S", "k", "i", "p", "p", "e", "d", " ", "(", "L", "L", "M", " ", "N",
      "O", "_", "M", "A", "T", "C", "H", ")">>,
    <<"S", "k", "i", "p", "p", "e", "d", " ", "(", "L", "L", "M", " ", "E",
      "R", "R", "O", "R", ")">>,
    <<"S", "k", "i", "p", "p", "e", "d", " ", "-", " ", "N", "o", " ", "L",
      "L", "M", " ", "i", "n", "f", "o", " ", "&", " ", "N", "o", " ", "i",
      "n", "i", "t", "i", "a", "l", " ", "m", "a", "t", "c", "h">>,
    <<"S", "k", "i", "p", "p", "e", "d", " ", "(", "N", "o", " ", "L", "L",
      "M", " ", "M", "a", "t", "c", "h", " ", "o", "r", " ", "F", "a", "l",
      "l", "b", "a", "c", "k", " ", "F", "a", "i", "l", "e", "d", ")">> }

\* The reasons of lines 808, 828, 1057 and 1109.
FixedReasons ==
  { <<"N", "o", " ", "c", "l", "i", "c", "k", "a", "b", "l", "e", " ", "l",
      "i", "n", "k">>,
    <<"T", "a", "b", " ", "o", "p", "e", "n", "i", "n", "g", " ", "e", "r",
      "r", "o", "r">>,
    <<"P", "a", "g", "e", " ", "i", "s", " ", "c", "l", "o", "s", "e", "d">>,
    <<"N", "o", " ", "A", "p", "p", "l", "y", " ", "b", "u", "t", "t", "o",
      "n", " ", "f", "o", "u", "n", "d">> }

FailedStatuses(maxWords) ==
  {FailedPrefix \o r : r \in FixedReasons \cup ReasonTexts(maxWords)}

LoggedStatuses(maxWords) ==
  {StatusSuccessApplied, StatusAlreadyApplied} \cup SkippedStatuses
    \cup FailedStatuses(maxWords)

CategoryCall ==
  /\ a.pc = "call"
  /\ a' = [a EXCEPT !.pc = "done", !.out = categorizeStatus(a.in)]
  /\ UNCHANGED <<ctxPages, g, d, stats, b, results, tasks, logger, env>>

InitCategory ==
  /\ ctxPages = {MainPage}
  /\ g = GotoIdle
  /\ d = [DriverInit EXCEPT !.pc = "direct"]
  /\ stats = StatsInit
  /\ b = BatchIdle
  /\ results = <<>>
  /\ tasks = [k \in Slots |-> NoTask]
  /\ logger = LoggerInit
  /\ env = EnvInit(0, Cfg(TRUE, 1))
  /\ \E status \in LoggedStatuses(MaxWords) :
       a = [pc |-> "call", in |-> status, out |-> "none"]

SpecCategory == InitCategory /\ [][CategoryCall]_vars

(* ---------------------------------------------------------------------- *)
(* Claims                                                                  *)
(* ---------------------------------------------------------------------- *)
InCardOrder == \A k \in 1..Len(results) : results[k].card = k - 1

\* C1 as stated: whenever processJobBatch returns, the results array has
\* one entry for each of the N cards, entry k being the outcome of card k.
C1_AllCardsInOrder ==
  b.pc = "done" => (Len(results) = b.n /\ InCardOrder)

\* C1 amended: whenever processJobBatch returns, the results array has one
\* entry for each card of the groups it started, entry k being the outcome
\* of card k; these are all N cards unless the loop was left because the
\* context had no open view, and then a whole number of groups is returned.
C1_StartedCardsInOrder ==
  b.pc = "done" =>
    /\ InCardOrder
    /\ Len(results) = Cardinality(b.started)
    /\ ~b.aborted => Len(results) = b.n
    /\ b.aborted => (Len(results) < b.n /\ Len(results) % MAX_CONCURRENT_TABS = 0)

C1_Witness ==
  b.pc = "done" /\ ~b.aborted /\ b.n = MaxCards /\ Len(results) = MaxCards

\* C2: every card a task was started for has exactly one entry in the
\* results processJobBatch returns, and the fold of the search driver
\* raises stats.total by exactly the number of started cards.
C2_StartedCardsCountedOnce ==
  /\ [](b.pc = "done" =>
          \A c \in b.started :
            Cardinality({i \in 1..Len(results) : results[i].card = c}) = 1)
  /\ [][(d.pc = "batch" /\ d'.pc # "batch") =>
          stats'.total = stats.total + Cardinality(b.started)]_vars

C2_Witness ==
  d.ev = "folded" /\ stats.total = MaxCards /\ stats.failed > 0 /\ stats.applied > 0

\* Case-insensitive substring, stated directly on the characters.
ContainsCI(title, term) ==
  \E off \in 0..(Len(title) - Len(term)) :
    \A i \in 1..Len(term) : ToLowerChar(title[off + i]) = ToLowerChar(term[i])

TitleHasSearchTerm(title) ==
  \E n \in 1..Len(SEARCH_ITEMS) : ContainsCI(title, SEARCH_ITEMS[n])

Decided(k) == tasks[k].pc \in {"closing", "settled"}

\* C3: a processJob call whose extracted title contains a SEARCH_ITEMS term
\* as a case-insensitive substring calls applyToJob and never calls
\* checkJobMatchWithLLM, with or without an extracted description.
C3_TitleMatchApplies ==
  \A k \in Slots :
    (Decided(k) /\ TitleHasSearchTerm(tasks[k].trace.title)) =>
      (tasks[k].trace.applyCalled /\ ~tasks[k].trace.llmCalled)

C3_Witness ==
  /\ tasks[0].pc = "settled"
  /\ tasks[0].trace.title = <<"a", "Q", "a">>
  /\ tasks[0].trace.desc
  /\ tasks[0].trace.applyCalled

\* C4: a processJob call whose scorer verdict is NO_MATCH or ERROR ends
\* skipped (success false, skipped true) without calling applyToJob.
C4_RejectedBySkips ==
  \A k \in Slots :
    (Decided(k) /\ tasks[k].trace.verdict \in {"NO_MATCH", "ERROR"}) =>
      /\ ~tasks[k].res.success
      /\ tasks[k].res.skipped
      /\ ~tasks[k].trace.applyCalled

C4_Witness ==
  /\ tasks[0].pc = "settled"
  /\ tasks[0].trace.verdict = "ERROR"
  /\ tasks[0].res.skipped

\* C5: a safeGoto call with retries = 2 calls page.goto at most 3 times,
\* and returns false once 3 load attempts have failed (by an exception or
\* by an empty title).
C5_AtMostThreeLoads ==
  g.retries = DefaultRetries =>
    /\ g.loads <= DefaultRetries + 1
    /\ (g.pc = "done" /\ g.fails = DefaultRetries + 1) => g.ret = "false"

C5_Witness ==
  /\ g.pc = "done"
  /\ g.retries = DefaultRetries
  /\ g.loads = DefaultRetries + 1
  /\ g.fails = DefaultRetries + 1
  /\ g.waits = 1
  /\ g.ret = "false"

\* C6 as stated: safeGoto never raises; every call resolves to true or
\* false, and to false without a load attempt when the page is closed on
\* entry.
C6_NeverRaises ==
  g.pc = "done" =>
    /\ g.ret \in {"true", "false"}
    /\ g.loads = 0 => g.ret = "false"

C6_Raised ==
  g.pc = "done" /\ g.ret = "raised" /\ g.loads = 1 /\ g.fails = 1

\* C7: when the detail view shows an "already applied" indicator, applyToJob
\* returns {success: true, alreadyApplied: true} and clicks no apply, next
\* or submit control.
C7_AlreadyAppliedNoClick ==
  (a.pc = "done" /\ a.view.already # {}) =>
    /\ a.out.clicks = <<>>
    /\ OpenAt(a.view, "already") => a.out.ret = ApplyRet(TRUE, TRUE, "")

C7_Witness ==
  /\ a.pc = "done"
  /\ a.view.already # {}
  /\ a.view.applyVis # {}
  /\ a.view.closeAt = "never"
  /\ a.out.ret.alreadyApplied

EveryApplicationSucceeded ==
  \A c \in 0..(E2ECards - 1) :
    \E i \in 1..Len(results) : results[i].card = c /\ results[i].applyOk

\* C8: on the fault-free site with 7 cards on one page, all titles matching,
\* when every card's application succeeded afresh, processJobBatch has run
\* groups of sizes 2, 2, 2, 1 and the fold leaves total = 7, applied = 7 and
\* the other counters 0.
C8_EndToEnd ==
  [][(d.pc = "batch" /\ b.pc = "done" /\ d'.ev = "folded"
        /\ b.n = E2ECards /\ EveryApplicationSucceeded) =>
       /\ b.groups = <<2, 2, 2, 1>>
       /\ stats' = [total |-> 7, applied |-> 7, alreadyApplied |-> 0,
                    skipped |-> 0, failed |-> 0]]_vars

C8_Witness ==
  /\ d.ev = "folded"
  /\ stats = [total |-> 7, applied |-> 7, alreadyApplied |-> 0,
              skipped |-> 0, failed |-> 0]

\* C9: when no card marker appears on a loaded results page, the driver
\* leaves the page loop of the term at once (the next page it loads, if any,
\* is page 1 of the next term), starts no processJobBatch and leaves every
\* counter of stats unchanged.
C9_NoMarkersStopsTerm ==
  [][(d.pc = "markers" /\ d'.ev = "noMarkers") =>
       /\ d'.term = d.term + 1
       /\ d'.page = 1
       /\ b' = BatchIdle
       /\ tasks' = tasks
       /\ stats' = stats]_vars

C9_Witness ==
  d.ev = "noMarkers" /\ d.pc = "goto" /\ d.term = 2 /\ d.page = 1 /\ g.loads = 1

\* C10 as stated: after safeGoto returned false for page p of a term, the
\* driver loads no later page of that term.
C10_GotoFailureStopsTerm ==
  [][(d.pc = "goto" /\ g.pc = "done" /\ g.ret = "false") =>
       ~(d'.pc = "goto" /\ d'.term = d.term /\ d'.page > d.page)]_vars

\* C10 amended: after safeGoto returned false for page p of a term, the
\* driver skips that page (no card wait, no batch, statistics unchanged) and
\* goes on with page p + 1 of the same term; only for p = MAX_PAGES does it
\* move on to the next term, and with the main page closed it leaves every
\* remaining loop.
C10_GotoFailureSkipsPage ==
  [][(d.pc = "goto" /\ g.pc = "done" /\ g.ret = "false" /\ d' # d) =>
       /\ stats' = stats
       /\ b' = BatchIdle
       /\ d'.pc \in {"goto", "closed"}
       /\ d'.pc = "closed" <=> (MainPage \notin ctxPages
                                  \/ (d.page = MAX_PAGES /\ d.term = NumTerms))
       /\ d'.pc = "goto" =>
            /\ g'.loads = 1
            /\ IF d.page < MAX_PAGES
               THEN d'.term = d.term /\ d'.page = d.page + 1
               ELSE d'.term = d.term + 1 /\ d'.page = 1]_vars

C10_Witness ==
  d.ev = "gotoFalse" /\ d.pc = "goto" /\ d.term = 1 /\ d.page = 2 /\ g.loads = 1

InFlight(k) == tasks[k].pc \in {"opening", "detail", "closing"}

\* C11 as stated: whenever a processJob call has returned, the view its own
\* click on the card link opened is closed.
C11_OpenedViewClosed ==
  \A k \in Slots :
    (tasks[k].pc = "settled" /\ tasks[k].opened # NoTab) =>
      tasks[k].opened \notin ctxPages

C11_Leaked ==
  \E k \in Slots :
    /\ tasks[k].pc = "settled"
    /\ tasks[k].opened # NoTab
    /\ tasks[k].opened \in ctxPages
    /\ tasks[k].newTab # tasks[k].opened

\* C12: a processJob call has appended no record to the log while it runs,
\* and exactly one record from its log call on, through its finally block and
\* after its return, whichever outcome it reaches.
C12_OneRecordPerCall ==
  /\ Len(logger.rows) = Len(tasks[0].logged)
  /\ logger.serialNumber = Len(logger.rows) + 1
  /\ tasks[0].pc \in {"call", "opening", "detail"} => Len(logger.rows) = 0
  /\ tasks[0].pc \in {"closing", "settled"} => Len(logger.rows) = 1

C12_Witness ==
  /\ tasks[0].pc = "settled"
  /\ tasks[0].newTab # NoTab
  /\ tasks[0].logged = <<"Failed - err">>
  /\ logger.rows = <<1>>

\* C13 as stated: no two tasks in flight hold the same view, and a task that
\* works on a view holds the view its own click opened.
C13_OwnView ==
  /\ \A j \in Slots, k \in Slots :
       (j # k /\ InFlight(j) /\ InFlight(k) /\ tasks[j].newTab # NoTab) =>
         tasks[j].newTab # tasks[k].newTab
  /\ \A k \in Slots :
       tasks[k].pc \in {"detail", "closing"} => tasks[k].newTab = tasks[k].opened

C13_SharedView ==
  /\ tasks[0].pc = "detail"
  /\ tasks[1].pc = "detail"
  /\ tasks[0].newTab = tasks[1].newTab
  /\ tasks[1].opened # tasks[1].newTab
  /\ tasks[1].opened \in ctxPages

StartedSlots == {k \in Slots : tasks[k].pc # "none"}

\* C14: when the wait for a group ends, every task of the group has settled,
\* and the results array grows by one entry per task, the entry of the task
\* at position k of the group at position k after the earlier entries,
\* holding that task's own result; a failed task's entry has success false
\* and a reason.
C14_FailureIsolation ==
  /\ [](\A i \in 1..Len(results) :
          results[i].res.success \/ results[i].res.reason # "none")
  /\ [][(b.pc = "group" /\ b'.pc # "group") =>
          /\ Len(results') = Len(results) + Cardinality(StartedSlots)
          /\ \A k \in StartedSlots :
               /\ tasks[k].pc = "settled"
               /\ results'[Len(results) + k + 1] = Entry(tasks[k])]_vars

C14_Witness ==
  /\ b.pc = "done"
  /\ Len(results) >= 2
  /\ ~results[1].res.success
  /\ results[1].res.reason = "err"
  /\ results[2].res.success

\* C15: every task that has been started (stagger timer included) belongs to
\* the group being awaited, and while a group is awaited every card of the
\* earlier groups has its entry in the results; so at most
\* MAX_CONCURRENT_TABS processJob calls are in flight.
C15_GroupsSequential ==
  /\ \A k \in Slots :
       tasks[k].pc \in {"timer", "opening", "detail", "closing"} =>
         /\ b.pc = "group"
         /\ b.i <= tasks[k].card
         /\ tasks[k].card < b.i + MAX_CONCURRENT_TABS
  /\ b.pc \in {"group", "pause"} =>
       \A c \in b.started :
         c < b.i => \E i \in 1..Len(results) : results[i].card = c
  /\ Cardinality({k \in Slots : InFlight(k)}) <= MAX_CONCURRENT_TABS

C15_Witness ==
  /\ b.pc = "group"
  /\ Len(b.groups) = 2
  /\ Len(results) = MAX_CONCURRENT_TABS
  /\ tasks[0].pc = "opening"
  /\ tasks[0].card = MAX_CONCURRENT_TABS

\* C16: the task at position k of a group calls processJob (its timer has
\* fired) no earlier than k * TAB_DELAY after the group was started, after
\* every task at a lower position and at a strictly later time.
C16_StaggeredStart ==
  \A k \in Slots :
    tasks[k].at # NoTime =>
      /\ tasks[k].at >= k * TAB_DELAY
      /\ \A j \in Slots :
           j < k => (tasks[j].at # NoTime /\ tasks[j].at < tasks[k].at)

C16_Witness ==
  /\ tasks[0].at = 0
  /\ tasks[1].at = TAB_DELAY
  /\ tasks[0].pc = "detail"
  /\ tasks[1].pc = "opening"

\* C17: from a state in which the context has no open view, no step opens a
\* view, starts a group or moves a task to the opening of a tab or to the
\* work on one, and a step of processJobBatch out of its pause returns the
\* results collected so far.
C17_NoViewsNoWork ==
  [][ctxPages = {} =>
       /\ ctxPages' = {}
       /\ Len(b'.groups) <= Len(b.groups)
       /\ \A k \in Slots :
            tasks'[k].pc \in {"opening", "detail"} => tasks'[k].pc = tasks[k].pc
       /\ (b.pc = "pause" /\ b' # b) =>
            (b'.pc = "done" /\ b'.aborted /\ results' = results)]_vars

C17_Witness ==
  /\ ctxPages = {}
  /\ b.pc = "done"
  /\ b.aborted
  /\ b.i = MAX_CONCURRENT_TABS
  /\ Len(results) = MAX_CONCURRENT_TABS
  /\ Len(b.groups) = 1
  /\ b.n > MAX_CONCURRENT_TABS

ReachedDecision(k) == Decided(k) /\ tasks[k].trace.decided

\* C18: a processJob call that extracted no description and a title that
\* contains no search term ends skipped, calls neither checkJobMatchWithLLM
\* nor applyToJob, and logs the one record "Skipped - No LLM info & No
\* initial match".
C18_NoSignalSkips ==
  \A k \in Slots :
    (ReachedDecision(k) /\ ~tasks[k].trace.desc
       /\ ~TitleHasSearchTerm(tasks[k].trace.title)) =>
      /\ ~tasks[k].res.success
      /\ tasks[k].res.skipped
      /\ ~tasks[k].trace.llmCalled
      /\ ~tasks[k].trace.applyCalled
      /\ tasks[k].logged = <<"Skipped - No LLM info & No initial match">>

C18_Witness ==
  /\ tasks[0].pc = "settled"
  /\ tasks[0].trace.decided
  /\ ~tasks[0].trace.desc
  /\ tasks[0].trace.title = <<"a", "a", "Q">>
  /\ tasks[0].res.skipped

\* C19: a processJob call whose title contains no search term, with a
\* description, whose scorer verdict is MATCH or PARTIAL_MATCH, calls
\* applyToJob, and its result is the one applyToJob returned (success and
\* alreadyApplied, or failure with applyToJob's reason, never skipped) with
\* the verdict as llmResult; it logs one record.
C19_ScorerMatchApplies ==
  \A k \in Slots :
    (ReachedDecision(k) /\ tasks[k].trace.desc
       /\ ~TitleHasSearchTerm(tasks[k].trace.title)
       /\ tasks[k].trace.verdict \in {"MATCH", "PARTIAL_MATCH"}) =>
      /\ tasks[k].trace.llmCalled
      /\ tasks[k].trace.applyCalled
      /\ tasks[k].res.success = tasks[k].trace.apply.ret.success
      /\ ~tasks[k].res.skipped
      /\ tasks[k].res.success =>
           tasks[k].res.alreadyApplied = tasks[k].trace.apply.ret.alreadyApplied
      /\ ~tasks[k].res.success =>
           tasks[k].res.reason = tasks[k].trace.apply.ret.reason
      /\ tasks[k].res.llm = tasks[k].trace.verdict
      /\ Len(tasks[k].logged) = 1

C19_Witness ==
  /\ tasks[0].pc = "settled"
  /\ tasks[0].trace.verdict = "MATCH"
  /\ tasks[0].trace.title = <<"a", "a", "Q">>
  /\ tasks[0].res.success
  /\ tasks[0].res.alreadyApplied
  /\ tasks[0].res.llm = "MATCH"

ApplyClicked(out) ==
  {out.clicks[i][2] : i \in {j \in 1..Len(out.clicks) : out.clicks[j][1] = "apply"}}

NothingToApply(view) == view.already = {} /\ view.applyVis = {}

C21_ClickedApplySucceeds ==
  (a.pc = "done" /\ ApplyClicked(a.out) # {}) =>
    /\ a.out.ret = ApplyRet(TRUE, FALSE, "")
    /\ a.out.via \in {"selector", "url", "unverified"}
    /\ a.out.via = "unverified" <=>
         (~a.view.urlOk /\ (a.view.confirm = {} \/ ~OpenAt(a.view, "confirm")))

C21_Witness ==
  /\ a.pc = "done"
  /\ a.view.closeAt = "never"
  /\ a.out.clicks = <<(<<"apply", 1>>)>>
  /\ a.view.nextVis = {}
  /\ a.view.submitVis = {}
  /\ a.view.confirm = {}
  /\ ~a.view.urlOk
  /\ a.out.via = "unverified"
  /\ a.out.ret.success
  /\ ~a.out.ret.alreadyApplied

Verdicts == {"MATCH", "PARTIAL_MATCH", "NO_MATCH", "ERROR", "SKIPPED_LLM"}

\* C22: every call of checkJobMatchWithLLM returns one of the five verdicts
\* (it never raises); without a client, with no keyword or with an empty
\* description it returns SKIPPED_LLM and the completion request is not made;
\* when the request is made and throws, the verdict is ERROR.
C22_ScorerNeverRaises ==
  a.pc = "done" =>
    /\ a.out.match \in Verdicts
    /\ (~a.in.groq \/ a.in.keywords = 0 \/ ~a.in.desc) =>
         (a.out.match = "SKIPPED_LLM" /\ ~a.out.called)
    /\ (a.in.groq /\ a.in.keywords > 0 /\ a.in.desc) =>
         /\ a.out.called
         /\ a.out.match # "SKIPPED_LLM"
         /\ a.in.api.kind = "throws" => a.out.match = "ERROR"

C22_Witness ==
  /\ a.pc = "done"
  /\ a.in.groq
  /\ a.in.keywords = 1
  /\ a.in.desc
  /\ a.in.api.kind = "throws"
  /\ a.out.called
  /\ a.out.match = "ERROR"

C24_BackoffBetweenAttempts ==
  /\ g.pc \in {"goto", "settle", "title"} => g.waits = g.loads - 1
  /\ g.pc = "backoff" => g.attempt < g.retries

C24_NoBackoffAfterEmptyTitle ==
  /\ g.pc = "goto"
  /\ g.loads = 2
  /\ g.fails = 1
  /\ g.waits = 0

\* C25: every call of processJobBatch returns, and every group it starts
\* settles (the wait for it ends), also when tasks fail and when the context
\* is closed while a group is in flight.
C25_BatchTerminates ==
  /\ <>(b.pc = "done")
  /\ (b.pc = "group") ~> (b.pc \in {"pause", "done"})

C25_Witness ==
  /\ b.pc = "done"
  /\ b.aborted
  /\ ctxPages = {}
  /\ b.n = MaxCards
  /\ Len(results) = MAX_CONCURRENT_TABS
  /\ results[1].res.reason = "err"
  /\ results[2].res.reason = "Context closed"

ScorerUnavailable == ~env.cfg.groq \/ env.cfg.keywords = 0

\* C26: with no scoring client or no resume keyword, a processJob call that
\* reaches its decision calls applyToJob exactly when the extracted title
\* contains a search term; the scorer, if asked, answers SKIPPED_LLM; and a
\* call whose title contains no search term ends skipped (success false,
\* skipped true) with one "Skipped" record, with or without a description.
C26_KeywordOnly ==
  \A k \in Slots :
    (ReachedDecision(k) /\ ScorerUnavailable) =>
      /\ tasks[k].trace.applyCalled <=> TitleHasSearchTerm(tasks[k].trace.title)
      /\ tasks[k].trace.verdict \in {"null", "SKIPPED_LLM"}
      /\ ~TitleHasSearchTerm(tasks[k].trace.title) =>
           /\ ~tasks[k].res.success
           /\ tasks[k].res.skipped
           /\ tasks[k].logged \in
                {<<"Skipped - No LLM info & No initial match">>,
                 <<"Skipped (No LLM Match or Fallback Failed)">>}

C26_Witness ==
  /\ tasks[0].pc = "settled"
  /\ ~env.cfg.groq
  /\ tasks[0].trace.decided
  /\ tasks[0].trace.desc
  /\ tasks[0].trace.title = <<"a", "Q", " ", "a">>
  /\ tasks[0].trace.verdict = "SKIPPED_LLM"
  /\ tasks[0].res.skipped
  /\ tasks[0].logged = <<"Skipped (No LLM Match or Fallback Failed)">>

\* C27 as stated: when the completion request returns a reply, a reply that
\* contains NO_MATCH (and not PARTIAL_MATCH) gives the verdict NO_MATCH, a
\* reply that contains PARTIAL_MATCH (and not NO_MATCH) gives PARTIAL_MATCH,
\* and a reply that contains MATCH and neither of the two gives MATCH.
C27_VerdictFollowsReply ==
  (a.pc = "done" /\ a.out.called /\ a.in.api.kind = "reply") =>
    LET reply == a.in.api.content
        no == includes(reply, ReplyNO)
        partial == includes(reply, ReplyPARTIAL)
    IN  /\ (no /\ ~partial) => a.out.match = "NO_MATCH"
        /\ (partial /\ ~no) => a.out.match = "PARTIAL_MATCH"
        /\ (includes(reply, ReplyMATCH) /\ ~no /\ ~partial) => a.out.match = "MATCH"

C27_NoMatchReadAsMatch ==
  /\ a.pc = "done"
  /\ a.out.called
  /\ a.in.api.kind = "reply"
  /\ a.in.api.content = ReplyNO
  /\ a.out.match = "MATCH"

\* The title the statement of C28 describes: the trimmed text (textContent,
\* or innerText when that is blank) of the first element whose trimmed text
\* is longer than 3 characters.
RECURSIVE FirstTrimmedOverThreshold(_)
FirstTrimmedOverThreshold(els) ==
  IF els = <<>> THEN UnknownJobTitle
  ELSE IF Len(trim(TitleOfElement(Head(els)))) > 3 THEN trim(TitleOfElement(Head(els)))
  ELSE FirstTrimmedOverThreshold(Tail(els))

\* C28 as stated: extractJobTitleFromDetailPage returns the trimmed text of
\* the first element, in selector order and then among the h1 elements, whose
\* trimmed text is longer than 3 characters, and "Unknown Job Title" when
\* there is none; it always returns.
C28_FirstTrimmedOverThreshold ==
  a.pc = "done" => a.out = FirstTrimmedOverThreshold(a.in.els \o a.in.h1s)

C28_ShortTitleAccepted ==
  /\ a.pc = "done"
  /\ a.in.els = <<[tc |-> <<" ", "a", " ", " ">>, it |-> <<>>]>>
  /\ a.in.h1s = <<>>
  /\ a.out = <<"a">>

\* Line 1013: the entry pushed for a task whose promise was rejected.
RejectedPlaceholder == Res(FALSE, FALSE, FALSE, "err", "null")

CountOf(rs, P(_)) == Cardinality({i \in 1..Len(rs) : P(rs[i].res)})

IsApplied(r) == r.success /\ ~r.alreadyApplied
IsAlready(r) == r.success /\ r.alreadyApplied
IsSkipped(r) == ~r.success /\ r.skipped
IsFailed(r) == ~r.success /\ ~r.skipped

\* C29: stats.total is always the sum of applied, alreadyApplied, skipped and
\* failed; the fold of a batch raises each of the four counters by the number
\* of results of its kind, a "Context closed" placeholder being of the
\* skipped kind and the placeholder of a rejected task of the failed kind.
C29_CountersAddUp ==
  /\ [](stats.total = stats.applied + stats.alreadyApplied + stats.skipped + stats.failed)
  /\ [](\A i \in 1..Len(results) :
          results[i].res.reason = "Context closed" => IsSkipped(results[i].res))
  /\ [](foldResult(stats, RejectedPlaceholder) =
          [stats EXCEPT !.total = @ + 1, !.failed = @ + 1])
  /\ [][(d.pc = "batch" /\ d'.pc # "batch") =>
          /\ stats'.total = stats.total + Len(results)
          /\ stats'.applied = stats.applied + CountOf(results, IsApplied)
          /\ stats'.alreadyApplied = stats.alreadyApplied + CountOf(results, IsAlready)
          /\ stats'.skipped = stats.skipped + CountOf(results, IsSkipped)
          /\ stats'.failed = stats.failed + CountOf(results, IsFailed)]_vars

C29_Witness ==
  /\ d.ev = "folded"
  /\ stats = [total |-> 3, applied |-> 1, alreadyApplied |-> 0, skipped |-> 1,
              failed |-> 1]
  /\ ctxPages = {}

\* C30 as stated: whenever the driver is not in the middle of a batch, the
\* log holds as many records as stats.total counts results
\* (getLogSummary().totalEntries = serialNumber - 1 = stats.total).
C30_LogMatchesTotal ==
  d.pc # "batch" =>
    /\ logger.serialNumber - 1 = stats.total
    /\ Len(logger.rows) = stats.total

C30_PlaceholderNotLogged ==
  /\ d.ev = "folded"
  /\ stats.total = MAX_CONCURRENT_TABS
  /\ stats.skipped >= 1
  /\ logger.serialNumber - 1 = MAX_CONCURRENT_TABS - 1

\* The open detail views of the context: every view but the search-results
\* page.
DetailViews == ctxPages \ {MainPage}

\* C31 as stated: while processJobBatch runs, at most MAX_CONCURRENT_TABS
\* detail views are open, and no detail view is open at the moment a group
\* has settled (the step in which Promise.allSettled returns).
C31_BoundedDetailViews ==
  /\ [](b.pc \in {"group", "pause"} => Cardinality(DetailViews) <= MAX_CONCURRENT_TABS)
  /\ [][(b.pc = "group" /\ b'.pc # "group") => ctxPages' \ {MainPage} = {}]_vars

\* A second group is in flight while views that the first group left open
\* are still in the context: more than MAX_CONCURRENT_TABS detail views.
C31_ViewsLeftOpen ==
  /\ b.pc = "group"
  /\ Len(b.groups) = 2
  /\ MainPage \in ctxPages
  /\ Cardinality(DetailViews) > MAX_CONCURRENT_TABS
  /\ \E k \in Slots : tasks[k].pc = "detail" /\ tasks[k].newTab \in ctxPages

\* The number of rows the callers have had appended, over all of them.
RECURSIVE RowsAppended(_)
RowsAppended(k) ==
  IF k \notin Slots THEN 0 ELSE Len(tasks[k].logged) + RowsAppended(k + 1)

\* C32: whatever the interleaving of the callers' logJob calls and of their
\* suspensions in saveExcel, the serial numbers of the rows are 1, 2, ..., n
\* in this order, one row per call, and getLogSummary().totalEntries is the
\* number of rows.
C32_SerialNumbersDense ==
  /\ \A i \in 1..Len(logger.rows) : logger.rows[i] = i
  /\ Len(logger.rows) = RowsAppended(0)
  /\ getLogSummary(logger).totalEntries = Len(logger.rows)

\* Both callers are suspended in saveExcel; the second was suspended by a
\* row written while the first was still waiting.
C32_Witness ==
  /\ \A k \in Slots : tasks[k].pc = "saving"
  /\ Len(tasks[0].logged) >= 1
  /\ Len(logger.rows) = 9
  /\ getLogSummary(logger).totalEntries = 9

StartsWith(s, prefix) ==
  /\ Len(s) >= Len(prefix)
  /\ \A i \in 1..Len(prefix) : s[i] = prefix[i]

SkippedPrefix == <<"S", "k", "i", "p", "p", "e", "d">>

\* The category of the decision a logged status stands for.
DecisionCategory(status) ==
  CASE status = StatusSuccessApplied -> "success"
    [] status = StatusAlreadyApplied -> "already_applied"
    [] StartsWith(status, SkippedPrefix) -> "skipped"
    [] StartsWith(status, FailedPrefix) -> "failed"
    [] OTHER -> "unknown"

\* C33 as stated: categorizeStatus gives every status that processJob logs
\* the category of its decision: success, already_applied, skipped, or
\* failed whatever the reason text is.
C33_CategoryOfDecision ==
  a.pc = "done" => a.out = DecisionCategory(a.in)

\* 'Already Applied' holds the text "applied" and is categorized as success.
C33_AlreadyAppliedIsSuccess ==
  /\ a.pc = "done"
  /\ a.in = StatusAlreadyApplied
  /\ a.out = "success"

\* C34: the test ends in no other way than through its finally block, which
\* closes the context (no view is left) with no safeGoto call and no batch in
\* flight; once the context was closed the test makes no search, runs no
\* batch and updates no statistics.
C34_ClosedOnEveryExit ==
  /\ [](d.pc = "closed" => ctxPages = {} /\ g.pc = "idle" /\ b.pc = "idle")
  /\ []((~ENABLED Next) => d.pc = "closed")
  /\ [][d.pc = "closed" =>
          /\ g' = g
          /\ b' = b
          /\ tasks' = tasks
          /\ results' = results
          /\ stats' = stats
          /\ logger' = logger]_vars

\* An exception in the page loop, after a batch was folded into the
\* statistics, has ended the test and the context is closed.
C34_Witness ==
  /\ d.pc = "closed"
  /\ d.ev = "raised"
  /\ stats.total > 0
  /\ ctxPages = {}

====
